---- MODULE Spec2Model ----
(***************************************************************************)
(* A model of sq-sdkms' OpenPGP core:                                      *)
(*   - BufferedReaderPartialBodyFilter (openpgp/src/parse/partial_body.rs) *)
(*   - the packet parser as driven through ffi/src/openpgp/mod.rs          *)
(*   - StandardPolicy (openpgp/src/policy.rs)                              *)
(*   - sq_verify and sq_decrypt (ffi/src/openpgp/mod.rs)                   *)
(*   - certificate evaluation under a Policy (openpgp/src/policy.rs)       *)
(*   - sqv (tool/src/sqv.rs)                                               *)
(*   - the key-custody agent (src/decryptor.rs, src/signer.rs)             *)
(*   - the sq-sdkms command line (src/main.rs)                             *)
(***************************************************************************)
EXTENDS Integers, Sequences, FiniteSets, TLC

VARIABLES
    \* ---- BufferedReaderPartialBodyFilter and the reader below it ----
    stream,               \* the octets held by the underlying reader
    upos,                 \* the underlying reader's cursor
    hashing,              \* the underlying reader's cookie: hashing enabled
    level,                \* the underlying reader's cookie: level (None or a level)
    hash_headers,         \* field hash_headers
    partial_body_length,  \* field partial_body_length (u32)
    last,                 \* field last
    buffer,               \* field buffer: [some |-> BOOLEAN, data |-> Seq]
    cursor,               \* field cursor
    panicked,             \* an assert!/assert_eq! of the reader failed
    result,               \* what the last call returned
    hist,                 \* observation record (bytes consumed, hashed, ...)
    \* ---- the packet parser behind ffi/src/openpgp/mod.rs ----
    pkts,                 \* the packet stream, depth first: [tag, depth]
    max_recursion_depth,  \* the configured recursion limit
    pp,                   \* the PacketParserResult the caller holds
    ffi,                  \* what the last sq_packet_parser_* call returned
    \* ---- StandardPolicy ----
    policy,               \* [time, hash_algos_normal, hash_algos_revocation]
    now,                  \* the clock read by Timestamp::now()
    verdict,              \* the last call of Policy::signature and its result
    policy_ops,           \* number of accept_hash/reject_hash/reject_hash_at calls
    config,               \* the last accept_hash/reject_hash/reject_hash_at call
    \* ---- the tools built on the core ----
    run,                  \* one sq_verify or sq_decrypt call
    cert,                 \* one certificate evaluated under a Policy
    sqv,                  \* one run of sqv
    agent,                \* one encrypt/decrypt round trip through the agent
    cli                   \* one run of the sq-sdkms command line

rvars == <<stream, upos, hashing, level, hash_headers, partial_body_length,
           last, buffer, cursor, panicked, result, hist>>

pvars == <<pkts, max_recursion_depth, pp, ffi>>

polvars == <<policy, now, verdict, policy_ops, config>>

xvars == <<run, cert, sqv, agent, cli>>

vars == <<rvars, pvars, polvars, xvars>>

(***************************************************************************)
(* Bounds.                                                                 *)
(***************************************************************************)
MaxStream == 4
MaxAmount == 3
MaxFirst == 2
MaxPackets == 4
MaxDepth == 2
MaxPolicyOps == 1
MaxBody == 2
MaxSubkeys == 2
MaxSigPackets == 2
MaxKeyrings == 2
MaxFills == 2
MaxMaterial == 2

\* Chunk-length header octets that occur in the streams:
\*   0, 1     : one-octet length (final chunk of that length)
\*   192      : first octet of a two-octet length
\*   224, 225 : partial body length 1, 2
\*   255      : first octet of a five-octet length
HeaderOctets == {0, 1, 192, 224, 225, 255}

\* The four length octets that follow a 255.
U32Octets == {0, 1}

\* The body octet at stream position i.  The reader never inspects body
\* octets, so each position carries its own value.
DataAt(i) == 10 + i

Octets == HeaderOctets \cup {DataAt(i) : i \in 1..MaxStream}

Min(a, b) == IF a <= b THEN a ELSE b

Drop(s, n) == SubSeq(s, n + 1, Len(s))
Take(s, n) == SubSeq(s, 1, Min(n, Len(s)))

RECURSIVE Pow2(_)
Pow2(k) == IF k = 0 THEN 1 ELSE 2 * Pow2(k - 1)

None == [some |-> FALSE, data |-> <<>>]
Some(d) == [some |-> TRUE, data |-> d]

Ok(bytes) == [ok |-> TRUE, bytes |-> bytes, kind |-> "", msg |-> ""]
Err(kind, msg) == [ok |-> FALSE, bytes |-> <<>>, kind |-> kind, msg |-> msg]

(***************************************************************************)
(* BodyLength::parse_new_format on the octets s found at the underlying    *)
(* reader's cursor.  used is the number of octets consumed, also when the  *)
(* parse fails half way.                                                   *)
(***************************************************************************)
parse_new_format(s) ==
    IF Len(s) < 1
    THEN [ok |-> FALSE, full |-> FALSE, len |-> 0, used |-> 0]
    ELSE LET octet1 == s[1] IN
         IF octet1 <= 191
         THEN [ok |-> TRUE, full |-> TRUE, len |-> octet1, used |-> 1]
         ELSE IF octet1 <= 223
         THEN IF Len(s) < 2
              THEN [ok |-> FALSE, full |-> FALSE, len |-> 0, used |-> 1]
              ELSE [ok |-> TRUE, full |-> TRUE,
                    len |-> (octet1 - 192) * 256 + s[2] + 192, used |-> 2]
         ELSE IF octet1 <= 254
         THEN [ok |-> TRUE, full |-> FALSE,
               len |-> Pow2(octet1 % 32), used |-> 1]
         ELSE IF Len(s) < 5
              THEN [ok |-> FALSE, full |-> FALSE, len |-> 0, used |-> 1]
              ELSE [ok |-> TRUE, full |-> TRUE,
                    len |-> ((s[2] * 256 + s[3]) * 256 + s[4]) * 256 + s[5],
                    used |-> 5]

\* s is a stream whose first chunk holds len octets: every position the
\* chunking makes a body octet (or leaves behind the final chunk) holds
\* DataAt, every position it makes a header octet holds a header octet.
\* The stream may end anywhere.
RECURSIVE WellTagged(_, _, _, _)
WellTagged(s, i, len, isLast) ==
    IF i > Len(s) THEN TRUE
    ELSE IF len > 0 \/ isLast
    THEN s[i] = DataAt(i)
         /\ WellTagged(s, i + 1, IF len > 0 THEN len - 1 ELSE 0, isLast)
    ELSE LET h == parse_new_format(Drop(s, i - 1)) IN
         /\ s[i] \in HeaderOctets
         /\ s[i] = 192 /\ i < Len(s) => s[i + 1] \in HeaderOctets
         /\ s[i] = 255 =>
              \A j \in (i + 1)..Min(Len(s), i + 4) : s[j] \in U32Octets
         /\ IF h.ok THEN WellTagged(s, i + h.used, h.len, h.full)
            ELSE Len(s) < i + 5

\* The well-tagged streams of at most n octets, built octet by octet.
RECURSIVE StreamsUpTo(_, _)
StreamsUpTo(n, first) ==
    IF n = 0 THEN {<<>>}
    ELSE LET shorter == StreamsUpTo(n - 1, first) IN
         shorter \cup
         {t \in {Append(s, o) : s \in {p \in shorter : Len(p) = n - 1},
                                o \in Octets} :
             WellTagged(t, 1, first, FALSE)}

Streams(first) == StreamsUpTo(MaxStream, first)

(***************************************************************************)
(* The reader as one record, so that the helpers can be written as         *)
(* functions from reader to reader.                                        *)
(***************************************************************************)
Reader == [stream |-> stream, upos |-> upos, hashing |-> hashing,
           level |-> level, hash_headers |-> hash_headers,
           partial_body_length |-> partial_body_length, last |-> last,
           buffer |-> buffer, cursor |-> cursor, panicked |-> panicked,
           hist |-> hist]

\* The underlying reader consumes k octets; they are hashed when hashing
\* is enabled on it.
UConsume(r, k, header) ==
    LET bytes == SubSeq(r.stream, r.upos + 1, r.upos + k) IN
    [r EXCEPT !.upos = @ + k,
              !.hist.hashed = IF r.hashing THEN @ \o bytes ELSE @,
              !.hist.hdr_bytes = IF header THEN @ + k ELSE @,
              !.hist.crossed = IF header THEN Min(@ + 1, MaxFills) ELSE @]

URemaining(r) == Drop(r.stream, r.upos)

\* Cookie::hashing(reader, how, level)
Cookie_hashing(r, how) ==
    [r EXCEPT !.hashing = how, !.hist.toggled = TRUE]


(***************************************************************************)
(* do_fill_buffer: make sure that the local buffer contains amount bytes.  *)
(* fill_loop is the loop at lines 109-198; st = [r, buf, err] where buf is *)
(* buffer[..amount_buffered].                                              *)
(***************************************************************************)
\* read_header re-enabling hashing only when the header parsed.
read_header_no_reenable(r) ==
    LET toggle == ~r.hash_headers /\ r.level # "None"
        r2 == IF toggle THEN Cookie_hashing(r, FALSE) ELSE r
        body_length == parse_new_format(URemaining(r2))
        r3 == UConsume(r2, body_length.used, TRUE)
        r4 == IF toggle /\ body_length.ok THEN Cookie_hashing(r3, TRUE)
              ELSE r3
    IN [r |-> r4, body_length |-> body_length]

\* Lines 154-176: read the next partial body length header, with hashing
\* disabled on the underlying reader unless the headers are to be hashed.
read_header(r) ==
    LET toggle == ~r.hash_headers /\ r.level # "None"
        r2 == IF toggle THEN Cookie_hashing(r, FALSE) ELSE r
        body_length == parse_new_format(URemaining(r2))
        r3 == UConsume(r2, body_length.used, TRUE)
        r4 == IF toggle THEN Cookie_hashing(r3, TRUE) ELSE r3
    IN [r |-> r4, body_length |-> body_length]

\* to_read_of not limited by the current chunk.
to_read_unlimited(r, space) == space

\* Lines 110-114: how much the next read() asks for.
to_read_of(r, space) == Min(r.partial_body_length, space)

RECURSIVE fill_loop(_, _)

\* Lines 178-197: the match on the parsed header h = [r, body_length],
\* with buf and err as the loop holds them.
match_body_length(h, buf, err, amount) ==
    IF h.body_length.ok
    THEN fill_loop(
           [r |-> [h.r EXCEPT
                     !.last = IF h.body_length.full THEN TRUE ELSE @,
                     !.partial_body_length = h.body_length.len,
                     !.hist.hdr_count = @ + 1,
                     !.hist.decl_sum = @ + h.body_length.len],
            buf |-> buf, err |-> err], amount)
    ELSE [r |-> h.r, buf |-> buf, err |-> Err("UnexpectedEof", "EOF")]

\* after_read going on after a short read.
after_read_ignoring_short(st1, short, amount) ==
    IF Len(st1.buf) = amount \/ st1.r.last
    THEN st1
    ELSE IF st1.r.partial_body_length # 0
    THEN [st1 EXCEPT !.r.panicked = TRUE]
    ELSE match_body_length(read_header(st1.r), st1.buf, st1.err, amount)

\* Lines 132-176: what the loop does with st1, the state after the
\* read(); short tells that the read came back short.
after_read(st1, short, amount) ==
    IF short
    THEN \* Short read => EOF.
         st1
    ELSE IF Len(st1.buf) = amount \/ st1.r.last
    THEN st1
    ELSE IF st1.r.partial_body_length # 0
    THEN \* assert_eq!(self.partial_body_length, 0)
         [st1 EXCEPT !.r.panicked = TRUE]
    ELSE match_body_length(read_header(st1.r), st1.buf, st1.err, amount)

\* Lines 121-131: self.reader.read() for to_read octets, of which the
\* underlying reader has did_read.
read_chunk(st, to_read, did_read) ==
    IF to_read > 0
    THEN [r |-> [UConsume(st.r, did_read, FALSE)
                    EXCEPT !.partial_body_length = @ - did_read],
          buf |-> st.buf \o SubSeq(st.r.stream, st.r.upos + 1,
                                   st.r.upos + did_read),
          err |-> st.err]
    ELSE st

fill_loop(st, amount) ==
    LET to_read == to_read_of(st.r, amount - Len(st.buf))
        \* the underlying reader hands over what it has, at most to_read
        did_read == Min(to_read, Len(st.r.stream) - st.r.upos)
    IN after_read(read_chunk([st EXCEPT !.r.hist.loops = @ + 1],
                             to_read, did_read),
                  to_read > 0 /\ did_read < to_read, amount)

\* old_data copying the old buffer from its start, not from the cursor.
old_data_from_start(r) ==
    IF r.buffer.some THEN r.buffer.data ELSE <<>>

\* Lines 91-105: the data that is still in the old buffer.
old_data(r) ==
    IF r.buffer.some THEN Drop(r.buffer.data, r.cursor) ELSE <<>>

\* store_buffer leaving the cursor where it was in the old buffer.
store_buffer_keeping_cursor(st) ==
    IF st.r.panicked
    THEN [r |-> st.r, err |-> Ok(<<>>)]
    ELSE [r |-> [st.r EXCEPT !.buffer = Some(st.buf),
                             !.hist.fill_err = st.err],
          err |-> st.err]

\* Lines 200-211: keep what the loop buffered and return its error.
store_buffer(st) ==
    IF st.r.panicked
    THEN [r |-> st.r, err |-> Ok(<<>>)]
    ELSE [r |-> [st.r EXCEPT !.buffer = Some(st.buf),
                             !.cursor = 0,
                             !.hist.fill_err = st.err],
          err |-> st.err]

\* The fill f counts as crossing a chunk boundary when it read, or tried
\* to read, a chunk-length header (counted in UConsume), and also when the
\* request reached beyond the current chunk but the stream ended first.
Crossing(f, before, reached) ==
    IF reached /\ f.r.hist.crossed = before
    THEN [f EXCEPT !.r.hist.crossed = Min(@ + 1, MaxFills)]
    ELSE f

do_fill_buffer(r, amount) ==
    LET amount_left == IF r.buffer.some
                       THEN Len(r.buffer.data) - r.cursor ELSE 0
    IN
    IF r.buffer.some /\ ~(amount > amount_left)
    THEN \* assert!(amount > amount_left)
         [r |-> [r EXCEPT !.panicked = TRUE], err |-> Ok(<<>>)]
    ELSE Crossing(
           store_buffer(fill_loop(
             [r |-> [r EXCEPT !.hist.fills = Min(@ + 1, MaxFills)],
              buf |-> old_data(r), err |-> Ok(<<>>)], amount)),
           r.hist.crossed, amount > amount_left + r.partial_body_length)

(***************************************************************************)
(* data_helper(amount, hard, and_consume): returns [r, ret] where ret is   *)
(* the Result and r the reader afterwards.                                 *)
(***************************************************************************)
\* The logical position advances over the first n bytes of what was
\* returned.
Advance(r, bytes, n) ==
    [r EXCEPT !.hist.consumed = @ \o Take(bytes, Min(n, Len(bytes)))]

\* hard_short failing only when nothing at all is there.
hard_short_if_empty(hard, have, amount) == hard /\ have = 0 /\ amount > 0

\* Lines 260 and 300: a hard read that cannot be satisfied.
hard_short(hard, have, amount) == hard /\ have < amount

\* advance_by consuming on every read.
advance_by_always(and_consume, amount, have) == Min(amount, have)

\* Lines 264-267 and 303-305: how far a read advances the position.
advance_by(and_consume, amount, have) ==
    IF and_consume THEN Min(amount, have) ELSE 0

\* from_buffer moving the cursor before it finds the read too short.
from_buffer_consuming_on_error(r, amount, hard, and_consume) ==
    LET buf == Drop(r.buffer.data, r.cursor)
        n == advance_by(and_consume, amount, Len(buf))
        moved == Advance([r EXCEPT !.cursor = @ + n], buf, n)
    IN  IF hard_short(hard, Len(buf), amount)
        THEN [r |-> moved, ret |-> Err("UnexpectedEof", "unepxected EOF")]
        ELSE [r |-> moved, ret |-> Ok(buf)]

\* The part of data_helper that runs once the local buffer is in place
\* (lines 296-306).
from_buffer(r, amount, hard, and_consume) ==
    LET buf == Drop(r.buffer.data, r.cursor) IN
    IF hard_short(hard, Len(buf), amount)
    THEN [r |-> r, ret |-> Err("UnexpectedEof", "unepxected EOF")]
    ELSE LET n == advance_by(and_consume, amount, Len(buf)) IN
         [r |-> Advance([r EXCEPT !.cursor = @ + n], buf, n),
          ret |-> Ok(buf)]

\* The pass-through branch (lines 236-272): the request is handed to the
\* underlying reader.
from_reader(r, amount, hard, and_consume) ==
    LET rem == URemaining(r)
        inner == IF hard /\ and_consume
                 THEN \* self.reader.data_consume_hard(amount)
                      IF Len(rem) < amount
                      THEN [r |-> r, ret |-> Err("UnexpectedEof", "EOF")]
                      ELSE [r |-> UConsume(r, amount, FALSE), ret |-> Ok(rem)]
                 ELSE IF and_consume
                 THEN \* self.reader.data_consume(amount)
                      [r |-> UConsume(r, Min(amount, Len(rem)), FALSE),
                       ret |-> Ok(rem)]
                 ELSE \* self.reader.data(amount)
                      [r |-> r, ret |-> Ok(rem)]
    IN
    IF ~inner.ret.ok
    THEN inner
    ELSE LET amount_buffered == Min(Len(inner.ret.bytes),
                                    r.partial_body_length)
             out == Take(inner.ret.bytes, amount_buffered)
         IN
         IF hard_short(hard, amount_buffered, amount)
         THEN [r |-> inner.r, ret |-> Err("UnexpectedEof", "unexpected EOF")]
         ELSE LET n == advance_by(and_consume, amount, amount_buffered) IN
              [r |-> Advance([inner.r EXCEPT !.partial_body_length = @ - n],
                             out, n),
               ret |-> Ok(out)]

\* Lines 286-306: with f the outcome of do_fill_buffer, give up on an
\* error and serve the request from the buffer otherwise.
serve_filled(f, amount, hard, and_consume) ==
    IF f.r.panicked \/ ~f.err.ok
    THEN [r |-> f.r, ret |-> f.err]
    ELSE from_buffer(f.r, amount, hard, and_consume)

\* fill_then_serve dropping the error of the fill.
fill_then_serve_drops_error(r, amount, hard, and_consume) ==
    from_buffer(do_fill_buffer(r, amount).r, amount, hard, and_consume)

\* Lines 283-306: fill the buffer, then return its error or serve the
\* request from it.
fill_then_serve(r, amount, hard, and_consume) ==
    serve_filled(do_fill_buffer(r, amount), amount, hard, and_consume)

\* Lines 240-241: the request can be handed to the underlying reader.
fits_chunk(r, amount) == amount <= r.partial_body_length \/ r.last

data_helper(r, amount, hard, and_consume) ==
    LET rr == [r EXCEPT !.hist.fill_err = Ok(<<>>),
                        !.hist.before = Len(r.hist.consumed),
                        !.hist.loops = 0, !.hist.ubefore = r.upos]
    IN
    IF rr.buffer.some
    THEN IF amount > Len(rr.buffer.data) - rr.cursor
         THEN fill_then_serve(rr, amount, hard, and_consume)
         ELSE from_buffer(rr, amount, hard, and_consume)
    ELSE IF rr.cursor # 0
    THEN \* assert_eq!(self.cursor, 0)
         [r |-> [rr EXCEPT !.panicked = TRUE], ret |-> Ok(<<>>)]
    ELSE IF fits_chunk(rr, amount)
    THEN from_reader(rr, amount, hard, and_consume)
    ELSE fill_then_serve(rr, amount, hard, and_consume)

\* fn buffer(): what may be consumed without a further read.
buffer_view(r) ==
    IF r.buffer.some
    THEN Drop(r.buffer.data, r.cursor)
    ELSE Take(URemaining(r), Min(Len(URemaining(r)), r.partial_body_length))

\* fn consume(amount)
consume_helper(r, amount) ==
    LET rr == [r EXCEPT !.hist.fill_err = Ok(<<>>),
                        !.hist.before = Len(r.hist.consumed),
                        !.hist.loops = 0, !.hist.ubefore = r.upos]
    IN
    IF rr.buffer.some
    THEN IF rr.cursor + amount > Len(rr.buffer.data)
         THEN [r |-> [rr EXCEPT !.panicked = TRUE], ret |-> Ok(<<>>)]
         ELSE [r |-> Advance([rr EXCEPT !.cursor = @ + amount],
                             Drop(rr.buffer.data, rr.cursor), amount),
               ret |-> Ok(Drop(rr.buffer.data, rr.cursor))]
    ELSE IF amount > rr.partial_body_length
    THEN [r |-> [rr EXCEPT !.panicked = TRUE], ret |-> Ok(<<>>)]
    ELSE [r |-> Advance(
                  [UConsume(rr, amount, FALSE)
                      EXCEPT !.partial_body_length = @ - amount],
                  URemaining(rr), amount),
          ret |-> Ok(URemaining(rr))]

(***************************************************************************)
(* The chunked body as OpenPGP defines it: the chunk bodies in order,      *)
(* without the chunk-length headers.  status tells how the chunking ends:  *)
(* "complete" (a final full-length chunk that is wholly there),            *)
(* "truncated" (a chunk declares more than the stream holds) or            *)
(* "badheader" (the stream ends before a header is complete).              *)
(***************************************************************************)
RECURSIVE Decode(_, _, _)
Decode(s, len, isLast) ==
    IF Len(s) < len THEN [body |-> s, status |-> "truncated"]
    ELSE IF isLast THEN [body |-> Take(s, len), status |-> "complete"]
    ELSE LET h == parse_new_format(Drop(s, len)) IN
         IF ~h.ok THEN [body |-> Take(s, len), status |-> "badheader"]
         ELSE LET rest == Decode(Drop(s, len + h.used), h.len, h.full) IN
              [body |-> Take(s, len) \o rest.body, status |-> rest.status]

\* The whole body, as the stream holds it when the reader is created.
Body == Decode(stream, hist.first, FALSE)

\* What is left of the body, seen from the reader's state: the unread part
\* of the local buffer, then what the rest of the stream decodes to.
Ahead == Decode(URemaining(Reader), partial_body_length, last)
Remaining == old_data(Reader) \o Ahead.body

(***************************************************************************)
(* The reader's state machine.                                             *)
(***************************************************************************)
\* The history h with what was left of the body when the call was made.
observe(h, ahead) ==
    [h EXCEPT !.left = old_data(Reader) \o ahead.body,
              !.status = ahead.status]

Commit(x, op, amount) ==
    /\ upos' = x.r.upos
    /\ hashing' = x.r.hashing
    /\ partial_body_length' = x.r.partial_body_length
    /\ last' = x.r.last
    /\ buffer' = x.r.buffer
    /\ cursor' = x.r.cursor
    /\ panicked' = x.r.panicked
    /\ hist' = observe(x.r.hist, Ahead)
    /\ result' = [op |-> op, amount |-> amount, ok |-> x.ret.ok,
                  bytes |-> x.ret.bytes, kind |-> x.ret.kind,
                  msg |-> x.ret.msg]
    /\ UNCHANGED <<stream, level, hash_headers>>
    /\ UNCHANGED <<pvars, polvars, xvars>>

\* with_cookie(reader, partial_body_length, hash_headers, cookie)
with_cookie ==
    /\ partial_body_length \in 0..MaxFirst
    /\ stream \in Streams(partial_body_length)
    /\ \E c \in {<<FALSE, "0">>, <<TRUE, "0">>, <<FALSE, "None">>} :
         hash_headers = c[1] /\ level = c[2]
    /\ upos = 0
    /\ hashing = TRUE
    /\ last = FALSE
    /\ buffer = None
    /\ cursor = 0
    /\ panicked = FALSE
    /\ result = [op |-> "new", amount |-> 0, ok |-> TRUE, bytes |-> <<>>,
                 kind |-> "", msg |-> ""]
    /\ hist = [consumed |-> <<>>, hashed |-> <<>>, hdr_bytes |-> 0,
               hdr_count |-> 0, decl_sum |-> partial_body_length,
               toggled |-> FALSE, fill_err |-> Ok(<<>>), before |-> 0,
               first |-> partial_body_length, left |-> <<>>,
               status |-> "complete", fills |-> 0, crossed |-> 0,
               loops |-> 0, ubefore |-> 0]

data ==
    /\ ~panicked
    /\ \E amount \in 0..MaxAmount :
         Commit(data_helper(Reader, amount, FALSE, FALSE), "data", amount)

data_hard ==
    /\ ~panicked
    /\ \E amount \in 0..MaxAmount :
         Commit(data_helper(Reader, amount, TRUE, FALSE), "data_hard", amount)

data_consume ==
    /\ ~panicked
    /\ \E amount \in 0..MaxAmount :
         Commit(data_helper(Reader, amount, FALSE, TRUE),
                "data_consume", amount)

data_consume_hard ==
    /\ ~panicked
    /\ \E amount \in 0..MaxAmount :
         Commit(data_helper(Reader, amount, TRUE, TRUE),
                "data_consume_hard", amount)

\* consume(amount): the caller consumes no more than buffer() shows.
consume ==
    /\ ~panicked
    /\ \E amount \in 0..Len(buffer_view(Reader)) :
         Commit(consume_helper(Reader, amount), "consume", amount)

ReaderNext == data \/ data_hard \/ data_consume \/ data_consume_hard \/ consume

(***************************************************************************)
(* The packet parser.  PacketParser::next, recurse, finish,                *)
(* buffer_unread_content and decrypt are specified in section 4.2 and in   *)
(* the documentation of their sq_packet_parser_* wrappers.                 *)
(***************************************************************************)
Containers == {"CompressedData", "SEIP"}
Tags == {"Literal", "CompressedData", "SEIP", "Malformed"}

\* A depth-first packet sequence: the first packet is at depth 0, a packet
\* is one level below its predecessor only if that is a container, every
\* container has a first child, and only the last packet may fail to
\* parse.
WellNested(s) ==
    /\ Len(s) >= 1 /\ s[1].depth = 0
    /\ \A i \in 1..Len(s) :
         /\ s[i].tag = "Malformed" => i = Len(s)
         /\ s[i].tag \in Containers =>
              i < Len(s) /\ s[i + 1].depth = s[i].depth + 1
         /\ i > 1 =>
              /\ s[i].depth <= s[i - 1].depth + 1
              /\ s[i].depth = s[i - 1].depth + 1 =>
                   s[i - 1].tag \in Containers

\* The depths a packet that follows p depth-first may have.
Follows(p) ==
    IF p.tag \in Containers THEN {p.depth + 1} \cap (0..MaxDepth)
    ELSE 0..p.depth

\* The depth-first packet sequences of at most n packets, built packet by
\* packet.
RECURSIVE NestedUpTo(_)
NestedUpTo(n) ==
    IF n = 1 THEN {<<[tag |-> t, depth |-> 0]>> : t \in Tags}
    ELSE LET shorter == NestedUpTo(n - 1) IN
         shorter \cup
         UNION {{Append(s, [tag |-> t, depth |-> d]) :
                    t \in Tags, d \in Follows(s[n - 1])} :
                s \in {q \in shorter : /\ Len(q) = n - 1
                                       /\ q[n - 1].tag # "Malformed"}}

PacketStreams == {s \in NestedUpTo(MaxPackets) : WellNested(s)}

NoParser == [state |-> "None", idx |-> 0, content_was_read |-> FALSE,
             decrypted |-> FALSE, finished |-> FALSE, readers |-> <<>>]

\* The parser positioned at packet j, reached with the reader stack rs.
\* The readers of the containers that were left are popped.
Positioned(j, rs) ==
    [state |-> "Some", idx |-> j, content_was_read |-> FALSE,
     decrypted |-> FALSE, finished |-> FALSE,
     readers |-> SelectSeq(rs, LAMBDA e : e.depth < pkts[j].depth)]

AtEOF(rs) ==
    [state |-> "EOF", idx |-> Len(pkts) + 1, content_was_read |-> FALSE,
     decrypted |-> FALSE, finished |-> FALSE,
     readers |-> SelectSeq(rs, LAMBDA e : e.depth < 0)]

\* Start parsing packet j (PacketParser::parse).
Parse(j, rs) ==
    IF pkts[j].tag = "Malformed"
    THEN [ok |-> FALSE, e |-> "MalformedEncoding", ppr |-> NoParser]
    ELSE [ok |-> TRUE, e |-> "none", ppr |-> Positioned(j, rs)]

\* PacketParser::recursion_depth
recursion_depth(P) == pkts[P.idx].depth

\* PacketParser::next: the next packet that is not inside the current one.
PacketParser_next(P) ==
    LET later == {j \in (P.idx + 1)..Len(pkts) :
                     pkts[j].depth <= recursion_depth(P)}
    IN IF later = {}
       THEN [ok |-> TRUE, e |-> "none", ppr |-> AtEOF(P.readers)]
       ELSE Parse(CHOOSE j \in later : \A k \in later : j <= k, P.readers)

\* PacketParser::recurse: the first child if the packet is a container,
\* the recursion limit is not reached and no content was read.
PacketParser_recurse(P) ==
    IF /\ pkts[P.idx].tag \in Containers
       /\ recursion_depth(P) < max_recursion_depth
       /\ ~P.content_was_read
    THEN Parse(P.idx + 1,
               Append(P.readers, [name |-> pkts[P.idx].tag,
                                  depth |-> recursion_depth(P)]))
    ELSE PacketParser_next(P)

\* PacketParser::decrypt
PacketParser_decrypt(P) ==
    IF pkts[P.idx].tag # "SEIP" \/ P.decrypted \/ P.content_was_read
    THEN [ok |-> FALSE, e |-> "InvalidOperation", pp |-> P]
    ELSE [ok |-> TRUE, e |-> "none",
          pp |-> [P EXCEPT !.decrypted = TRUE,
                           !.readers = Append(@, [name |-> "Decryptor",
                                                  depth |-> recursion_depth(P)])]]

\* PacketParser::finish and PacketParser::buffer_unread_content
PacketParser_finish(P) ==
    [P EXCEPT !.finished = TRUE, !.content_was_read = TRUE]

PacketParser_buffer_unread_content(P) ==
    [P EXCEPT !.content_was_read = TRUE]

(***************************************************************************)
(* The sq_packet_parser_* functions.  Each returns the caller's view after *)
(* the call: [pp, ffi].                                                    *)
(***************************************************************************)
Called(op, P, status, e, old_packet, new) ==
    [pp |-> new,
     ffi |-> [op |-> op, status |-> status, e |-> e,
              old_packet |-> old_packet, prev |-> P]]

\* sq_packet_parser_recursion_depth: pp.recursion_depth() as u8
sq_packet_parser_recursion_depth(P) == recursion_depth(P) % 256

\* The tail of sq_packet_parser_next and sq_packet_parser_recurse: hand
\* the outcome r of the advance to the caller.
advance_out(op, P, r, old_packet, ppr) ==
    IF r.ok
    THEN Called(op, P, "Success", ffi.e,
                IF old_packet THEN P.idx ELSE 0,
                IF ppr THEN r.ppr ELSE NoParser)
    ELSE Called(op, P, r.e, r.e, 0, NoParser)

\* sq_packet_parser_next recursing.
sq_packet_parser_next_recursing(P, old_packet, ppr) ==
    advance_out("next", P, PacketParser_recurse(P), old_packet, ppr)

sq_packet_parser_next(P, old_packet, ppr) ==
    advance_out("next", P, PacketParser_next(P), old_packet, ppr)

\* sq_packet_parser_recurse with the call to recurse dropped.
sq_packet_parser_recurse_as_next(P, old_packet, ppr) ==
    advance_out("recurse", P, PacketParser_next(P), old_packet, ppr)

sq_packet_parser_recurse(P, old_packet, ppr) ==
    advance_out("recurse", P, PacketParser_recurse(P), old_packet, ppr)

sq_packet_parser_buffer_unread_content(P) ==
    Called("buffer_unread_content", P, "Success", ffi.e, 0,
           PacketParser_buffer_unread_content(P))

sq_packet_parser_finish(P) ==
    Called("finish", P, "Success", ffi.e, P.idx, PacketParser_finish(P))

\* sq_packet_parser_decrypt taking the parser by value: it is gone after
\* the call.
sq_packet_parser_decrypt_moving(P) ==
    LET r == PacketParser_decrypt(P) IN
    IF r.ok THEN Called("decrypt", P, "Success", ffi.e, 0, r.pp)
    ELSE Called("decrypt", P, r.e, r.e, 0, NoParser)

sq_packet_parser_decrypt(P) ==
    LET r == PacketParser_decrypt(P) IN
    IF r.ok THEN Called("decrypt", P, "Success", ffi.e, 0, r.pp)
    ELSE Called("decrypt", P, r.e, r.e, 0, r.pp)

(***************************************************************************)
(* The parser's state machine: a caller driving the parser through the     *)
(* sq_packet_parser_* functions.                                           *)
(***************************************************************************)
PCommit(x) ==
    /\ pp' = x.pp
    /\ ffi' = x.ffi
    /\ UNCHANGED <<pkts, max_recursion_depth>>
    /\ UNCHANGED <<rvars, polvars, xvars>>

\* sq_packet_parser_from_bytes
ParserInit ==
    /\ pkts \in PacketStreams
    /\ max_recursion_depth \in 0..MaxDepth
    /\ LET r == Parse(1, <<>>) IN
         /\ pp = r.ppr
         /\ ffi = [op |-> "from_bytes",
                   status |-> IF r.ok THEN "Success" ELSE r.e,
                   e |-> r.e, old_packet |-> 0, prev |-> NoParser]

ParserIdle ==
    /\ pkts = <<>>
    /\ max_recursion_depth = 0
    /\ pp = NoParser
    /\ ffi = [op |-> "none", status |-> "Success", e |-> "none",
              old_packet |-> 0, prev |-> NoParser]

ReaderIdle ==
    /\ stream = <<>> /\ upos = 0 /\ hashing = FALSE /\ level = "None"
    /\ hash_headers = FALSE /\ partial_body_length = 0 /\ last = FALSE
    /\ buffer = None /\ cursor = 0 /\ panicked = FALSE
    /\ result = [op |-> "none", amount |-> 0, ok |-> TRUE, bytes |-> <<>>,
                 kind |-> "", msg |-> ""]
    /\ hist = [consumed |-> <<>>]

Next_ ==
    /\ pp.state = "Some"
    /\ \E old_packet \in BOOLEAN, ppr \in BOOLEAN :
         PCommit(sq_packet_parser_next(pp, old_packet, ppr))

Recurse ==
    /\ pp.state = "Some"
    /\ \E old_packet \in BOOLEAN, ppr \in BOOLEAN :
         PCommit(sq_packet_parser_recurse(pp, old_packet, ppr))

BufferUnreadContent ==
    /\ pp.state = "Some"
    /\ PCommit(sq_packet_parser_buffer_unread_content(pp))

Finish ==
    /\ pp.state = "Some"
    /\ PCommit(sq_packet_parser_finish(pp))

Decrypt ==
    /\ pp.state = "Some"
    /\ PCommit(sq_packet_parser_decrypt(pp))

ParserNext == Next_ \/ Recurse \/ BufferUnreadContent \/ Finish \/ Decrypt

(***************************************************************************)
(* StandardPolicy.  A time is a pair <<q, r>> standing for q * 2^16 + r    *)
(* seconds since the Unix epoch, so that the whole range of a Timestamp    *)
(* (u32) and the SystemTimes on both sides of it can be written down.      *)
(***************************************************************************)
TLt(a, b) == a[1] < b[1] \/ (a[1] = b[1] /\ a[2] < b[2])
TLe(a, b) == a = b \/ TLt(a, b)

UNIX_EPOCH == <<0, 0>>
U32_MAX == <<65535, 65535>>
Y1997 == <<13001, 43264>>
Y2004 == <<16371, 25344>>
Y2013 == <<20706, 9984>>
Y2020 == <<24075, 57600>>

\* One second before Y2013.
Y2013m1 == <<20706, 9983>>

\* SystemTimes before the epoch and after the last Timestamp.  A
\* SystemTime that is not a whole number of seconds has a third component,
\* the fraction of a second (in halves).
BeforeEpoch == <<0 - 1, 0>>
AfterCeiling == <<65536, 0>>
JustAfterCeiling == <<65535, 65535, 1>>

\* Duration::as_secs: the whole seconds of a SystemTime.
as_secs(t) == <<t[1], t[2]>>

NoTime == [some |-> FALSE, t |-> UNIX_EPOCH]
SomeTime(t) == [some |-> TRUE, t |-> t]

\* cutofflist: REJECT, ACCEPT, CutoffList::set, cutoff and check
REJECT == SomeTime(UNIX_EPOCH)
ACCEPT == NoTime

CutoffList_set(list, a, cutoff) == [list EXCEPT ![a] = cutoff]

CutoffList_cutoff(list, a) == IF a \in DOMAIN list THEN list[a] ELSE REJECT

CutoffList_check(list, a, time) ==
    LET c == CutoffList_cutoff(list, a) IN ~(c.some /\ TLe(c.t, time))

NormalHashCutoffList ==
    [a \in 0..11 |->
        CASE a = 1 -> SomeTime(Y1997)
          [] a \in {2, 3} -> SomeTime(Y2013)
          [] a \in {0, 4, 5, 6, 7} -> REJECT
          [] OTHER -> ACCEPT]

RevocationHashCutoffList ==
    [a \in 0..11 |->
        CASE a = 1 -> SomeTime(Y2004)
          [] a \in {2, 3} -> SomeTime(Y2020)
          [] a \in {0, 4, 5, 6, 7} -> REJECT
          [] OTHER -> ACCEPT]

system_time_cutoff_to_timestamp(t) ==
    LET secs == IF TLt(t, UNIX_EPOCH) THEN UNIX_EPOCH ELSE as_secs(t) IN
    IF TLt(U32_MAX, secs) THEN NoTime ELSE SomeTime(secs)

\* An Option<SystemTime> mapped through system_time_cutoff_to_timestamp
and_then_timestamp(o) ==
    IF o.some THEN system_time_cutoff_to_timestamp(o.t) ELSE NoTime

StandardPolicy_new ==
    [time |-> NoTime,
     hash_algos_normal |-> NormalHashCutoffList,
     hash_algos_revocation |-> RevocationHashCutoffList]

StandardPolicy_at(time) ==
    LET t == system_time_cutoff_to_timestamp(time) IN
    [StandardPolicy_new EXCEPT
        !.time = SomeTime(IF t.some THEN t.t ELSE U32_MAX)]

\* accept_hash lifting the cutoff for normal signatures only.
accept_hash_normal_only(P, h) ==
    [P EXCEPT !.hash_algos_normal = CutoffList_set(@, h, ACCEPT)]

accept_hash(P, h) ==
    [P EXCEPT !.hash_algos_normal = CutoffList_set(@, h, ACCEPT),
              !.hash_algos_revocation = CutoffList_set(@, h, ACCEPT)]

reject_hash(P, h) ==
    [P EXCEPT !.hash_algos_normal = CutoffList_set(@, h, REJECT),
              !.hash_algos_revocation = CutoffList_set(@, h, REJECT)]

\* reject_hash_at setting the cutoffs of the algorithm below h as well.
reject_hash_at_and_below(P, h, normal, revocation) ==
    [P EXCEPT
        !.hash_algos_normal =
            CutoffList_set(CutoffList_set(@, h - 1,
                                          and_then_timestamp(normal)),
                           h, and_then_timestamp(normal)),
        !.hash_algos_revocation =
            CutoffList_set(@, h, and_then_timestamp(revocation))]

reject_hash_at(P, h, normal, revocation) ==
    [P EXCEPT
        !.hash_algos_normal = CutoffList_set(@, h, and_then_timestamp(normal)),
        !.hash_algos_revocation =
            CutoffList_set(@, h, and_then_timestamp(revocation))]

RevocationTypes ==
    {"KeyRevocation", "SubkeyRevocation", "CertificationRevocation"}

\* The track choice with only key revocations on the revocation track.
track_of_key_revocation_only(typ) ==
    IF typ = "KeyRevocation" THEN "revocation" ELSE "normal"

\* The track a signature of type typ is judged by.
track_of(typ) ==
    IF typ \in RevocationTypes THEN "revocation" ELSE "normal"

\* StandardPolicy::signature judging at the signature's creation time
\* when no reference time is pinned.
signature_at_creation_time(P, sig, clock) ==
    LET time == IF P.time.some THEN P.time.t ELSE sig.creation_time IN
    IF track_of(sig.typ) = "revocation"
    THEN [ok |-> CutoffList_check(P.hash_algos_revocation, sig.hash_algo,
                                  time),
          time |-> time, context |-> "revocation signature"]
    ELSE [ok |-> CutoffList_check(P.hash_algos_normal, sig.hash_algo, time),
          time |-> time, context |-> "non-revocation signature"]

\* StandardPolicy::signature reading the clock even when a reference time
\* is pinned.
signature_ignoring_pinned_time(P, sig, clock) ==
    IF track_of(sig.typ) = "revocation"
    THEN [ok |-> CutoffList_check(P.hash_algos_revocation, sig.hash_algo,
                                  clock),
          time |-> clock, context |-> "revocation signature"]
    ELSE [ok |-> CutoffList_check(P.hash_algos_normal, sig.hash_algo, clock),
          time |-> clock, context |-> "non-revocation signature"]

\* StandardPolicy::signature with the time it used: [ok, time, context]
signature(P, sig, clock) ==
    LET time == IF P.time.some THEN P.time.t ELSE clock IN
    IF track_of(sig.typ) = "revocation"
    THEN [ok |-> CutoffList_check(P.hash_algos_revocation, sig.hash_algo,
                                  time),
          time |-> time, context |-> "revocation signature"]
    ELSE [ok |-> CutoffList_check(P.hash_algos_normal, sig.hash_algo, time),
          time |-> time, context |-> "non-revocation signature"]

(***************************************************************************)
(* The policy's state machine: a policy is built, tuned and consulted.     *)
(***************************************************************************)
SigTypes == {"KeyRevocation", "SubkeyRevocation", "SubkeyBinding"}
EvalAlgos == {1, 2, 3}
ConfigAlgos == {1, 3}
Signatures ==
    [typ : SigTypes, hash_algo : EvalAlgos,
     creation_time : {UNIX_EPOCH, Y2020}]

AtTimes == {BeforeEpoch, Y2013m1, AfterCeiling}
CutoffTimes == {NoTime, SomeTime(BeforeEpoch), SomeTime(Y2013),
                SomeTime(JustAfterCeiling), SomeTime(AfterCeiling)}

\* The <<normal, revocation>> cutoffs handed to reject_hash_at: the same
\* cutoff on both tracks, and the tracks apart.
CutoffPairs ==
    {<<c, c>> : c \in CutoffTimes \ {NoTime}}
        \cup {<<SomeTime(BeforeEpoch), SomeTime(AfterCeiling)>>,
              <<NoTime, SomeTime(BeforeEpoch)>>}
Clock == <<Y2013m1, Y2013>>

NoVerdict == [op |-> "none", sig |-> [typ |-> "Binary", hash_algo |-> 0,
                                      creation_time |-> UNIX_EPOCH],
              ok |-> TRUE, time |-> UNIX_EPOCH, context |-> "", ops |-> 0]

NoConfig == [op |-> "none", h |-> 0, normal |-> NoTime, revocation |-> NoTime]

PolicyInit ==
    /\ policy \in {StandardPolicy_new}
                     \cup {StandardPolicy_at(t) : t \in AtTimes}
    /\ now \in {1, 2}
    /\ verdict = NoVerdict
    /\ policy_ops = 0
    /\ config = NoConfig

PolicyIdle ==
    /\ policy = StandardPolicy_new
    /\ now = 1
    /\ verdict = NoVerdict
    /\ policy_ops = 0
    /\ config = NoConfig

AcceptHash ==
    /\ policy_ops < MaxPolicyOps
    /\ \E h \in ConfigAlgos :
         /\ policy' = accept_hash(policy, h)
         /\ config' = [NoConfig EXCEPT !.op = "accept_hash", !.h = h]
    /\ policy_ops' = policy_ops + 1
    /\ UNCHANGED <<now, verdict, rvars, pvars, xvars>>

RejectHash ==
    /\ policy_ops < MaxPolicyOps
    /\ \E h \in ConfigAlgos :
         /\ policy' = reject_hash(policy, h)
         /\ config' = [NoConfig EXCEPT !.op = "reject_hash", !.h = h]
    /\ policy_ops' = policy_ops + 1
    /\ UNCHANGED <<now, verdict, rvars, pvars, xvars>>

RejectHashAt ==
    /\ policy_ops < MaxPolicyOps
    /\ \E h \in ConfigAlgos, c \in CutoffPairs :
         /\ policy' = reject_hash_at(policy, h, c[1], c[2])
         /\ config' = [op |-> "reject_hash_at", h |-> h,
                       normal |-> c[1], revocation |-> c[2]]
    /\ policy_ops' = policy_ops + 1
    /\ UNCHANGED <<now, verdict, rvars, pvars, xvars>>

\* Policy::signature(sig)
Signature ==
    /\ \E sig \in Signatures :
         LET r == signature(policy, sig, Clock[now]) IN
         verdict' = [op |-> "signature", sig |-> sig, ok |-> r.ok,
                     time |-> r.time, context |-> r.context,
                     ops |-> policy_ops]
    /\ UNCHANGED <<policy, now, policy_ops, config, rvars, pvars, xvars>>

\* Time passes.
Tick ==
    /\ now < Len(Clock)
    /\ now' = now + 1
    /\ UNCHANGED <<policy, verdict, policy_ops, config, rvars, pvars, xvars>>

PolicyNext == AcceptHash \/ RejectHash \/ RejectHashAt \/ Signature \/ Tick

(***************************************************************************)
(* The tools built on the core.  A tool that is not running is idle.       *)
(***************************************************************************)
Idle == [pc |-> "idle"]

ToolsIdle ==
    run = Idle /\ cert = Idle /\ sqv = Idle /\ agent = Idle /\ cli = Idle

(***************************************************************************)
(* sq_verify and sq_decrypt: the streaming Verifier and Decryptor driven   *)
(* through the helpers VHelper and DHelper, whose callbacks the caller     *)
(* supplies.                                                               *)
(***************************************************************************)
\* The copy buffer of verify_real, scaled down to one octet.
BufferLen == 1

\* A message: an optional encryption container around an optionally signed
\* literal.  A message that is not intact ends one octet early.
Messages ==
    [encrypted : BOOLEAN,
     sigs : {<<>>} \cup {<<[typ |-> "Binary", valid |-> v]>> : v \in BOOLEAN},
     body : UNION {[1..n -> {0, 1}] : n \in 0..MaxBody},
     intact : BOOLEAN]

\* What the caller's three callbacks do when they are called.
Callbacks ==
    [keys : {"certs", "none", "error"},
     secret : {"key", "null", "error"},
     check : {"Success", "Error"}]

\* A Policy, given by the signature types its signature() rejects: the
\* trait's default, NoBinarySigantures and NoSubkeySigs.
Policies == {{}, {"Binary"}, {"SubkeyBinding"}}

\* The trait's default signature(), whatever the implementation says.
Policy_signature_default(P, typ) == TRUE

Policy_signature(P, typ) == typ \notin P

VHelper_get_public_keys(cb) ==
    IF cb.keys = "error"
    THEN Err("InvalidArgument", "get_public_keys")
    ELSE Ok(IF cb.keys = "certs" THEN <<"cert">> ELSE <<>>)

\* VHelper::check taking every status of the callback for success.
VHelper_check_ignoring_status(cb) == Ok(<<>>)

VHelper_check(cb) ==
    IF cb.check # "Success"
    THEN Err("InvalidArgument", "check_signatures")
    ELSE Ok(<<>>)

\* DHelper::get_secret handing on a null secret.
DHelper_get_secret_null_unchecked(cb) ==
    IF cb.secret = "error"
    THEN Err("InvalidArgument", "get_secret_keys")
    ELSE Ok(<<cb.secret>>)

DHelper_get_secret(cb) ==
    IF cb.secret = "error"
    THEN Err("InvalidArgument", "get_secret_keys")
    ELSE IF cb.secret = "null"
         THEN Err("MissingSessionKey",
                  "Callback did not return a session key")
         ELSE Ok(<<cb.secret>>)

\* The result the Verifier and the Decryptor report for a signature, given
\* the certificates the helper returned and the policy.
VerificationResult(sig, certs, P) ==
    IF certs = <<>> THEN "MissingKey"
    ELSE IF ~Policy_signature(P, "SubkeyBinding")
                \/ ~Policy_signature(P, sig.typ)
         THEN "Error"
         ELSE IF ~sig.valid THEN "BadChecksum"
              ELSE "GoodChecksum"

\* sq_verify (with or without an output) or sq_decrypt is called.
Call(op, output, msg, cb, P) ==
    [pc |-> "called", op |-> op, output |-> output, msg |-> msg, cb |-> cb,
     policy |-> P, pos |-> 0, out |-> <<>>, certs |-> <<>>,
     calls |-> [get_public_keys |-> 0, get_secret |-> 0, decrypt |-> 0,
                check |-> 0],
     results |-> <<>>, eof |-> FALSE, check_pos |-> 0,
     status |-> "none", error |-> [kind |-> "", context |-> ""]]

Failed(r, kind, context) ==
    [r EXCEPT !.pc = "done", !.status = "Failure",
              !.error = [kind |-> kind, context |-> context]]

\* Verifier::from_reader and Decryptor::from_reader: the packets before the
\* content are parsed, the session key is asked for and the parser's
\* decrypt is invoked with it, and the issuers' certificates are asked for.
Verifier_from_reader(r) ==
    LET wants_key == r.op = "decrypt" /\ r.msg.encrypted
        secret == IF wants_key THEN DHelper_get_secret(r.cb) ELSE Ok(<<>>)
        signed == r.msg.sigs # <<>>
        keys == IF signed THEN VHelper_get_public_keys(r.cb) ELSE Ok(<<>>)
        context == IF r.op = "decrypt" THEN "Decryption failed" ELSE ""
        r1 == [r EXCEPT !.calls.get_secret = IF wants_key THEN 1 ELSE 0]
        r2 == [r1 EXCEPT !.calls.decrypt = IF wants_key THEN 1 ELSE 0]
        r3 == [r2 EXCEPT !.calls.get_public_keys = IF signed THEN 1 ELSE 0]
    IN  IF ~secret.ok THEN Failed(r1, secret.kind, context)
        ELSE IF ~r.msg.intact /\ r.msg.body = <<>>
             THEN Failed(r2, "MalformedMessage", context)
             ELSE IF ~keys.ok THEN Failed(r3, keys.kind, context)
                  ELSE [r3 EXCEPT !.pc = "reading", !.certs = keys.bytes]

\* One read of the copy loop: the next octets of the content, or at the end
\* of the message the signatures' results handed to check, once.  A failed
\* read ends the copy, and the error gets the operation's context.
Verifier_read(r) ==
    LET context == IF r.op = "decrypt" THEN "Decryption failed"
                   ELSE "Verification failed"
        avail == IF r.msg.intact THEN Len(r.msg.body)
                 ELSE Len(r.msg.body) - 1
        n == Min(BufferLen, avail - r.pos)
        bytes == SubSeq(r.msg.body, r.pos + 1, r.pos + n)
        results == [i \in 1..Len(r.msg.sigs) |->
                       VerificationResult(r.msg.sigs[i], r.certs, r.policy)]
        ended == [r EXCEPT !.eof = TRUE, !.results = results]
        checked == [ended EXCEPT !.calls.check = @ + 1, !.check_pos = r.pos]
    IN  IF r.pos < avail
        THEN [r EXCEPT !.pos = @ + n,
                       !.out = IF r.output THEN @ \o bytes ELSE @]
        ELSE IF ~r.msg.intact
             THEN Failed(r, "MalformedMessage", context)
             ELSE IF ~VHelper_check(r.cb).ok
                  THEN Failed(checked, VHelper_check(r.cb).kind, context)
                  ELSE [checked EXCEPT !.pc = "done", !.status = "Success"]

\* The runs: sq_verify is given messages without an encryption container,
\* and sq_decrypt always has an output.
Runs ==
    {Call("verify", o, m, cb, P) :
        o \in BOOLEAN, m \in {x \in Messages : ~x.encrypted},
        cb \in Callbacks, P \in Policies}
    \cup {Call("decrypt", TRUE, m, cb, P) :
             m \in Messages, cb \in Callbacks, P \in Policies}

FromReader ==
    /\ run.pc = "called"
    /\ run' = Verifier_from_reader(run)
    /\ UNCHANGED <<rvars, pvars, polvars, cert, sqv, agent, cli>>

Read ==
    /\ run.pc = "reading"
    /\ run' = Verifier_read(run)
    /\ UNCHANGED <<rvars, pvars, polvars, cert, sqv, agent, cli>>

PipelineNext == FromReader \/ Read

(***************************************************************************)
(* A certificate evaluated under a Policy: cert.keys().with_policy(p),     *)
(* cert.userids().with_policy(p) and their revoked(false) filter, as the   *)
(* tests binding_signature and revocation use them.                        *)
(***************************************************************************)
\* The components of a certificate with or without a user ID and with n
\* subkeys; component 0 of kind "key" is the primary key.
Components(uid, n) ==
    {[kind |-> "key", i |-> k] : k \in 0..n}
        \cup (IF uid THEN {[kind |-> "userid", i |-> 0]} ELSE {})

\* The types of a component's binding signature and of its revocation.
self_signature(comp, revocation) ==
    CASE comp.kind = "userid" ->
            IF revocation THEN "CertificationRevocation"
            ELSE "PositiveCertification"
      [] comp.i = 0 -> IF revocation THEN "KeyRevocation" ELSE "DirectKey"
      [] OTHER -> IF revocation THEN "SubkeyRevocation" ELSE "SubkeyBinding"

\* The policies: any set of self-signature types may be rejected.
CertPolicies ==
    SUBSET {"DirectKey", "PositiveCertification", "SubkeyBinding",
            "KeyRevocation", "CertificationRevocation", "SubkeyRevocation"}

\* with_policy counting a revocation whatever the policy says of it.
with_policy_every_revocation(c, P) ==
    LET primary == Policy_signature(P, "DirectKey")
        valid == {comp \in c.components :
                     /\ primary
                     /\ Policy_signature(P, self_signature(comp, FALSE))}
    IN  [policy |-> P, valid |-> valid,
         revoked |-> valid \cap c.revocations]

\* The components that are valid under the policy P, and those of them
\* that are revoked under it: a self-signature the policy rejects is not
\* there, and nothing is valid without a valid primary key.
with_policy(c, P) ==
    LET primary == Policy_signature(P, "DirectKey")
        valid == {comp \in c.components :
                     /\ primary
                     /\ Policy_signature(P, self_signature(comp, FALSE))}
    IN  [policy |-> P, valid |-> valid,
         revoked |-> {comp \in valid \cap c.revocations :
                         Policy_signature(P, self_signature(comp, TRUE))}]

NoEval == [policy |-> {}, valid |-> {}, revoked |-> {}]

\* CertBuilder::generate
CertInit ==
    cert \in {[pc |-> "built", components |-> Components(uid, n),
               revocations |-> {}, evaluated |-> FALSE, eval |-> NoEval] :
                 uid \in BOOLEAN, n \in 0..MaxSubkeys}

\* cert.merge_packets(revocation): a new certificate value.
MergeRevocation ==
    /\ cert.pc = "built"
    /\ \E comp \in cert.components \ cert.revocations :
         cert' = [cert EXCEPT !.revocations = @ \cup {comp},
                              !.evaluated = FALSE, !.eval = NoEval]
    /\ UNCHANGED <<rvars, pvars, polvars, run, sqv, agent, cli>>

WithPolicy ==
    /\ cert.pc = "built"
    /\ \E P \in CertPolicies :
         cert' = [cert EXCEPT !.evaluated = TRUE,
                              !.eval = with_policy(cert, P)]
    /\ UNCHANGED <<rvars, pvars, polvars, run, sqv, agent, cli>>

CertNext == MergeRevocation \/ WithPolicy

(***************************************************************************)
(* sqv: real_main and main of tool/src/sqv.rs.  The signature file, the    *)
(* file and the keyrings are what the program finds as it reads them.      *)
(***************************************************************************)
\* Values of --signatures, as the characters given on the command line.
SignaturesArgs ==
    {<<"0">>, <<"1">>, <<"2">>, <<"0", "2">>, <<"x">>, <<"-", "1">>}

RECURSIVE decimal(_)
decimal(s) ==
    IF s = <<>> THEN 0
    ELSE 10 * decimal(SubSeq(s, 1, Len(s) - 1))
            + (CASE s[Len(s)] = "0" -> 0 [] s[Len(s)] = "1" -> 1
                 [] s[Len(s)] = "2" -> 2)

\* str::parse::<usize>
parse_usize(s) ==
    IF s # <<>> /\ \A i \in 1..Len(s) : s[i] \in {"0", "1", "2"}
    THEN [ok |-> TRUE, n |-> decimal(s)]
    ELSE [ok |-> FALSE, n |-> 0]

\* The packets of a signature file: signatures by key 1 or 2 that verify
\* or do not, a signature that names no issuer, and other packets.
SigFilePackets ==
    [tag : {"Signature"}, issuer : {0, 1, 2}, valid : BOOLEAN]
        \cup [tag : {"CompressedData", "Literal"}, issuer : {0},
              valid : {FALSE}]

\* The certificates of the keyrings: a primary key and subkeys.
TPKs ==
    {[primary |-> 1, subkeys |-> {}], [primary |-> 2, subkeys |-> {}],
     [primary |-> 1, subkeys |-> {2}], [primary |-> 3, subkeys |-> {2}]}

tpk_has_key(tpk, keyid) == keyid = tpk.primary \/ keyid \in tpk.subkeys

\* TPK::merge(...).ok(): certificates of one primary key merge.
merge_ok(a, b) ==
    IF a.primary = b.primary
    THEN [some |-> TRUE,
          tpk |-> [a EXCEPT !.subkeys = @ \cup b.subkeys]]
    ELSE [some |-> FALSE, tpk |-> a]

\* The signatures' slots after the certificate tpk was found in a keyring.
found(sigs, tpk) ==
    [i \in 1..Len(sigs) |->
        IF ~tpk_has_key(tpk, sigs[i].issuer) THEN sigs[i]
        ELSE IF sigs[i].tpko.some
             THEN [sigs[i] EXCEPT !.tpko = merge_ok(@.tpk, tpk)]
             ELSE [sigs[i] EXCEPT !.tpko = [some |-> TRUE, tpk |-> tpk]]]

\* The number of signatures among the first n that sig.verify finds good.
RECURSIVE verify(_, _)
verify(sigs, n) ==
    IF n = 0 THEN 0
    ELSE verify(sigs, n - 1)
            + (IF /\ sigs[n].tpko.some
                  /\ tpk_has_key(sigs[n].tpko.tpk, sigs[n].issuer)
                  /\ sigs[n].valid
               THEN 1 ELSE 0)

\* PacketParserResult::EOF
EOF == [tag |-> "EOF", issuer |-> 0, valid |-> FALSE]

exit(s, status) == [s EXCEPT !.pc = "exit", !.status = status]

\* sqv is started with or without --signatures.
SqvInit ==
    sqv \in {[pc |-> "args", given |-> g, arg |-> a, good_threshold |-> 0,
              pp |-> EOF, sigs |-> <<>>, sig_i |-> 0, packets |-> 0,
              keyrings |-> 0, seen |-> {}, verified |-> FALSE,
              good |-> 0, status |-> 0] :
                g \in BOOLEAN, a \in SignaturesArgs}

SqvStep(s) ==
    /\ sqv' = s
    /\ UNCHANGED <<rvars, pvars, polvars, run, cert, agent, cli>>

\* Lines 57-75: the threshold.
GoodThreshold ==
    /\ sqv.pc = "args"
    /\ LET t == IF sqv.given THEN parse_usize(sqv.arg)
                ELSE [ok |-> TRUE, n |-> 1]
       IN  IF ~t.ok \/ t.n < 1 THEN SqvStep(exit(sqv, 2))
           ELSE SqvStep([sqv EXCEPT !.pc = "open",
                                    !.good_threshold = t.n])

\* Lines 85-86: the signature file is opened and its first packet parsed.
\* An error is returned to main, which exits with 2.
OpenSigFile ==
    /\ sqv.pc = "open"
    /\ \/ SqvStep(exit(sqv, 2))
       \/ SqvStep([sqv EXCEPT !.pc = "packets", !.pp = EOF])
       \/ \E p \in SigFilePackets :
            SqvStep([sqv EXCEPT !.pc = "packets", !.pp = p,
                                !.packets = 1])

\* Lines 95-139: one turn of the loop over the packets, or its end.  The
\* packet is looked at and pp.recurse().unwrap() moves to the next one; an
\* error of recurse makes unwrap panic, and the process ends with 101.
CollectSignature ==
    /\ sqv.pc = "packets"
    /\ IF sqv.pp = EOF
       THEN IF Len(sqv.sigs) = 0 THEN SqvStep(exit(sqv, 2))
            ELSE SqvStep([sqv EXCEPT !.pc = "hash"])
       ELSE IF sqv.pp.tag = "Literal" THEN SqvStep(exit(sqv, 2))
       ELSE LET sig == sqv.pp.tag = "Signature"
                s1 == [sqv EXCEPT
                         !.sig_i = IF sig THEN @ + 1 ELSE @,
                         !.sigs =
                            IF sig /\ sqv.pp.issuer # 0
                            THEN Append(@, [issuer |-> sqv.pp.issuer,
                                            valid |-> sqv.pp.valid,
                                            tpko |-> [some |-> FALSE,
                                                      tpk |-> 0]])
                            ELSE @]
            IN  \/ SqvStep(exit(s1, 101))
                \/ SqvStep([s1 EXCEPT !.pp = EOF])
                \/ /\ sqv.packets < MaxSigPackets
                   /\ \E p \in SigFilePackets :
                        SqvStep([s1 EXCEPT !.pp = p, !.packets = @ + 1])

\* Lines 145-148: the file is opened and hashed, or cannot be.
HashFile ==
    /\ sqv.pc = "hash"
    /\ \/ SqvStep(exit(sqv, 2))
       \/ SqvStep([sqv EXCEPT !.pc = "keyrings"])

\* Lines 163-210: one keyring is loaded, there being at least one: it
\* cannot be read, or its certificates that have an issuer's key are found.
\* seen keeps the certificates the keyrings held.
LoadKeyring ==
    /\ sqv.pc = "keyrings"
    /\ sqv.keyrings < MaxKeyrings
    /\ \/ SqvStep(exit(sqv, 2))
       \/ SqvStep([sqv EXCEPT !.keyrings = @ + 1])
       \/ \E tpk \in TPKs :
            SqvStep([sqv EXCEPT !.keyrings = @ + 1,
                                !.seen = @ \cup {tpk},
                                !.sigs = found(@, tpk)])

\* Lines 212-265: the signatures are verified and counted.
VerifySignatures ==
    /\ sqv.pc = "keyrings"
    /\ sqv.keyrings >= 1
    /\ LET good == verify(sqv.sigs, Len(sqv.sigs)) IN
       SqvStep(exit([sqv EXCEPT !.verified = TRUE, !.good = good],
                    IF good >= sqv.good_threshold THEN 0 ELSE 1))

SqvNext ==
    \/ GoodThreshold \/ OpenSigFile \/ CollectSignature
    \/ HashFile \/ LoadKeyring \/ VerifySignatures

(***************************************************************************)
(* The key-custody agent: the round trip of src/tests.rs, encrypt to the   *)
(* agent's certificate and decrypt through RawDecryptor, with the          *)
(* arithmetic scaled down: RSA with modulus 33, Diffie-Hellman modulo 11.  *)
(***************************************************************************)
RECURSIVE powmod(_, _, _)
powmod(b, e, n) == IF e = 0 THEN 1 ELSE (b * powmod(b, e - 1, n)) % n

\* MPI::new and MPI::value: a big-endian number without leading zeros.
RECURSIVE MPI_value(_)
MPI_value(octets) ==
    IF octets # <<>> /\ octets[1] = 0 THEN MPI_value(Tail(octets))
    ELSE octets

\* The agent's transport-encryption keys.
PublicKeys ==
    {[algo |-> "RSA", curve |-> "none"]}
        \cup [algo : {"ECDH"},
              curve : {"NistP256", "NistP384", "NistP521", "Cv25519"}]

\* The session key encrypted to the key: a PKESK's ciphertext.  RSA gives
\* one number of two octets, ECDH the ephemeral key and the wrapped key.
pk_encrypt(public, sk, x) ==
    IF public.algo = "RSA"
    THEN LET c == powmod(sk, 3, 33) IN
         [kind |-> "RSA", c |-> MPI_value(<<c \div 16, c % 16>>),
          e |-> <<>>, key |-> 0]
    ELSE [kind |-> "ECDH", c |-> <<>>,
          e |-> MPI_value(<<4, powmod(2, x, 11)>>),
          key |-> (sk + powmod(powmod(2, 3, 11), x, 11)) % 16]

\* What SDKMS answers: the RSA decryption of the number the octets give,
\* and the secret agreed between the private key and the imported key.
sdkms_decrypt(cipher) ==
    powmod((IF Len(cipher) = 2 THEN 16 * cipher[1] ELSE 0)
               + cipher[Len(cipher)], 7, 33)

sdkms_agree(ephemeral_der) == powmod(ephemeral_der[Len(ephemeral_der)], 3, 11)

ecdh_decrypt_unwrap(secret, ciphertext) == (ciphertext.key + 16 - secret) % 16

\* RawDecryptor::decrypt handing back the ciphertext it was given.
RawDecryptor_decrypt_echo(public, ciphertext, failing) ==
    CASE ciphertext.kind = "RSA" ->
            IF failing \in {"build", "decrypt"}
            THEN [ok |-> FALSE, key |-> 0, msg |-> failing]
            ELSE [ok |-> TRUE,
                  key |-> ciphertext.c[Len(ciphertext.c)], msg |-> ""]
      [] ciphertext.kind = "ECDH" ->
            IF failing # "none"
            THEN [ok |-> FALSE, key |-> 0, msg |-> failing]
            ELSE [ok |-> TRUE, key |-> ciphertext.key, msg |-> ""]
      [] OTHER ->
            [ok |-> FALSE, key |-> 0, msg |-> "unsupported/unknown algorithm"]

\* RawDecryptor::decrypt; failing names the remote call that fails.
RawDecryptor_decrypt(public, ciphertext, failing) ==
    CASE failing = "build" ->
            [ok |-> FALSE, key |-> 0, msg |-> failing]
      [] ciphertext.kind = "RSA" ->
            IF failing = "decrypt"
            THEN [ok |-> FALSE, key |-> 0, msg |-> failing]
            ELSE [ok |-> TRUE, key |-> sdkms_decrypt(ciphertext.c),
                  msg |-> ""]
      [] ciphertext.kind = "ECDH" ->
            IF public.algo # "ECDH"
            THEN [ok |-> FALSE, key |-> 0, msg |-> "inconsistent pk algo"]
            ELSE IF public.curve \notin {"NistP256", "NistP384", "NistP521"}
            THEN [ok |-> FALSE, key |-> 0, msg |-> "unsupported curve"]
            ELSE IF failing \in {"authenticate", "import", "agree", "export"}
            THEN [ok |-> FALSE, key |-> 0, msg |-> failing]
            ELSE [ok |-> TRUE,
                  key |-> ecdh_decrypt_unwrap(sdkms_agree(ciphertext.e),
                                              ciphertext),
                  msg |-> ""]
      [] OTHER ->
            [ok |-> FALSE, key |-> 0, msg |-> "unsupported/unknown algorithm"]

\* RawSigner::sign; panic is set where the code reaches panic! or
\* unimplemented!.  The signature is the digest under the toy RSA key.
RawSigner_sign(public, hash_algo, digest, failing) ==
    IF failing = "build"
    THEN [ok |-> FALSE, s |-> 0, msg |-> failing, panic |-> FALSE]
    ELSE IF hash_algo \notin {"SHA1", "SHA512", "SHA256"}
    THEN [ok |-> FALSE, s |-> 0, msg |-> "unimplemented hash algorithm",
          panic |-> TRUE]
    ELSE IF failing = "sign"
    THEN [ok |-> FALSE, s |-> 0, msg |-> failing, panic |-> FALSE]
    ELSE IF public.algo # "RSA"
    THEN [ok |-> FALSE, s |-> 0, msg |-> "not implemented", panic |-> TRUE]
    ELSE [ok |-> TRUE, s |-> powmod(digest, 7, 33), msg |-> "",
          panic |-> FALSE]

\* The encrypted container around the literal, under the session key sk.
symmetric(sk, octets) == [i \in 1..Len(octets) |-> (octets[i] + sk) % 2]

\* encrypt() of src/tests.rs: an armored message of the session key
\* encrypted to the recipient and the literal encrypted under it.
encrypt(plaintext, recipient, sk, x) ==
    <<"-----BEGIN PGP MESSAGE-----",
      [pkesk |-> pk_encrypt(recipient, sk, x),
       seip |-> [mdc |-> sk, data |-> symmetric(sk, plaintext)]],
      "-----END PGP MESSAGE-----">>

\* PgpAgent::decrypt: the armor is removed, the session key is recovered by
\* RawDecryptor, the container is decrypted if the key is the right one,
\* and a message without signatures is approved.
PgpAgent_decrypt(a) ==
    LET message == a.ciphertext[2]
        sk == RawDecryptor_decrypt(a.public, message.pkesk, a.failing)
    IN  IF ~sk.ok
        THEN [a EXCEPT !.pc = "done", !.status = "Failure",
                       !.error = sk.msg]
        ELSE IF sk.key # message.seip.mdc
        THEN [a EXCEPT !.pc = "done", !.recovered = TRUE,
                       !.status = "Failure", !.error = "bad session key"]
        ELSE [a EXCEPT !.pc = "done", !.recovered = TRUE,
                       !.status = "Success",
                       !.plaintext = symmetric(sk.key, message.seip.data)]

\* PgpAgent::summon; failing names the remote call that fails, if any.
AgentInit ==
    agent \in {[pc |-> "summoned", public |-> k, failing |-> f,
                message |-> <<>>, ciphertext |-> <<>>, recovered |-> FALSE,
                plaintext |-> <<>>, status |-> "none", error |-> "",
                panicked |-> FALSE] :
                  k \in PublicKeys,
                  f \in {"none", "build", "decrypt", "authenticate",
                         "import", "agree", "export", "sign"}}

Encrypt ==
    /\ agent.pc = "summoned"
    /\ \E m \in UNION {[1..n -> {0, 1}] : n \in 0..MaxBody},
          sk \in {2, 5, 10}, x \in {1, 2} :
         agent' = [agent EXCEPT !.pc = "encrypted", !.message = m,
                                !.ciphertext = encrypt(m, agent.public,
                                                       sk, x)]
    /\ UNCHANGED <<rvars, pvars, polvars, run, cert, sqv, cli>>

AgentDecrypt ==
    /\ agent.pc = "encrypted"
    /\ agent' = PgpAgent_decrypt(agent)
    /\ UNCHANGED <<rvars, pvars, polvars, run, cert, sqv, cli>>

\* A signature is asked of the agent's key; a panic ends the process.
Sign ==
    /\ agent.pc = "summoned"
    /\ \E hash_algo \in {"SHA1", "SHA256", "SHA384", "SHA512"},
          digest \in {2, 5} :
         LET sig == RawSigner_sign(agent.public, hash_algo, digest,
                                   agent.failing)
         IN  agent' = [agent EXCEPT
                 !.pc = "signed",
                 !.message = <<hash_algo, digest>>,
                 !.ciphertext = IF sig.ok THEN <<sig.s>> ELSE <<>>,
                 !.status = IF sig.ok THEN "Success" ELSE "Failure",
                 !.error = sig.msg,
                 !.panicked = sig.panic]
    /\ UNCHANGED <<rvars, pvars, polvars, run, cert, sqv, cli>>

AgentNext == Encrypt \/ AgentDecrypt \/ Sign

(***************************************************************************)
(* The sq-sdkms command line (src/main.rs): the output path is checked,    *)
(* the agent is asked for the material, and the material is written to     *)
(* the output file or to standard output.  file is what the output path    *)
(* holds and who put it there; another process may create it at any time.  *)
(***************************************************************************)
NoFile == [some |-> FALSE, by |-> "none", data |-> <<>>]
FileOf(by, content) == [some |-> TRUE, by |-> by, data |-> content]

\* not_exists(path): the error, or "" when there is none.
not_exists(output_file, file) ==
    IF output_file /\ file.some THEN "Output file exists" ELSE ""

\* OpenOptions::new().write(true).create(true).truncate(true).open(file)
create_open(file) == [ok |-> TRUE, file |-> FileOf("cli", <<>>)]

\* OpenOptions::new().write(true).create_new(true).open(file)
create_new_open(file) ==
    IF file.some THEN [ok |-> FALSE, file |-> file]
    ELSE [ok |-> TRUE, file |-> FileOf("cli", <<>>)]

\* Rust's main returns Err(..): the process ends with status 1.
main_err(c, msg) == [c EXCEPT !.pc = "exit", !.status = 1, !.error = msg]

CliInit ==
    cli \in {[pc |-> "start", cmd |-> cmd, output_file |-> o,
              existed |-> f.some, file |-> f, requests |-> 0,
              pgp_material |-> <<>>, stdout |-> <<>>, status |-> 0,
              error |-> ""] :
                cmd \in {"GenerateKey", "Certificate", "SignDetached",
                         "Decrypt"},
                o \in BOOLEAN,
                f \in {NoFile, FileOf("other", <<9>>)}}

CliStep(c) ==
    /\ cli' = c
    /\ UNCHANGED <<rvars, pvars, polvars, run, cert, sqv, agent>>

\* Lines 110, 127, 144, 162: not_exists(&args.output_file)?
NotExists ==
    /\ cli.pc = "start"
    /\ LET e == not_exists(cli.output_file, cli.file) IN
       IF e # "" THEN CliStep(main_err(cli, e))
       ELSE CliStep([cli EXCEPT !.pc = "checked"])

\* Lines 112-185: the input file is read (sign-detached and decrypt), the
\* agent is summoned and asked for the material; each step may fail.
Request ==
    /\ cli.pc = "checked"
    /\ \/ /\ cli.cmd \in {"SignDetached", "Decrypt"}
          /\ CliStep(main_err(cli, "read"))
       \/ CliStep(main_err([cli EXCEPT !.requests = @ + 1], "agent"))
       \/ \E m \in UNION {[1..n -> {0, 1}] : n \in 1..MaxMaterial} :
            CliStep([cli EXCEPT !.pc = "material", !.requests = @ + 1,
                                !.pgp_material = m])

\* Lines 189-196: the material goes to standard output with one write(),
\* which fails or accepts n of the bytes, or the output file is opened.
Output ==
    /\ cli.pc = "material"
    /\ IF ~cli.output_file
       THEN \/ CliStep(main_err(cli, "write"))
            \/ \E n \in 0..Len(cli.pgp_material) :
                 CliStep([cli EXCEPT !.pc = "exit", !.status = 0,
                                     !.stdout = Take(cli.pgp_material, n)])
       ELSE LET buf == create_new_open(cli.file) IN
            IF ~buf.ok THEN CliStep(main_err(cli, "open"))
            ELSE CliStep([cli EXCEPT !.pc = "opened", !.file = buf.file])

\* Line 197: buf.write_all(&pgp_material)?: everything is written, or the
\* write fails after n of the bytes.
WriteAll ==
    /\ cli.pc = "opened"
    /\ \/ CliStep([cli EXCEPT !.pc = "exit", !.status = 0,
                              !.file.data = cli.pgp_material])
       \/ \E n \in 0..(Len(cli.pgp_material) - 1) :
            CliStep(main_err([cli EXCEPT
                                !.file.data = Take(cli.pgp_material, n)],
                             "write"))

\* Another process creates the output path while the command runs.
OtherCreates ==
    /\ cli.pc \in {"start", "checked", "material"}
    /\ ~cli.file.some
    /\ CliStep([cli EXCEPT !.file = FileOf("other", <<9>>)])

CliNext == NotExists \/ Request \/ Output \/ WriteAll \/ OtherCreates

PipelineStart ==
    /\ run \in Runs /\ ReaderIdle /\ ParserIdle /\ PolicyIdle
    /\ cert = Idle /\ sqv = Idle /\ agent = Idle /\ cli = Idle

PipelineSpec == PipelineStart /\ [][PipelineNext]_vars

CertStart ==
    /\ CertInit /\ ReaderIdle /\ ParserIdle /\ PolicyIdle
    /\ run = Idle /\ sqv = Idle /\ agent = Idle /\ cli = Idle

CertSpec == CertStart /\ [][CertNext]_vars

SqvStart ==
    /\ SqvInit /\ ReaderIdle /\ ParserIdle /\ PolicyIdle
    /\ run = Idle /\ cert = Idle /\ agent = Idle /\ cli = Idle

SqvSpec == SqvStart /\ [][SqvNext]_vars

AgentStart ==
    /\ AgentInit /\ ReaderIdle /\ ParserIdle /\ PolicyIdle
    /\ run = Idle /\ cert = Idle /\ sqv = Idle /\ cli = Idle

AgentSpec == AgentStart /\ [][AgentNext]_vars

CliStart ==
    /\ CliInit /\ ReaderIdle /\ ParserIdle /\ PolicyIdle
    /\ run = Idle /\ cert = Idle /\ sqv = Idle /\ agent = Idle

CliSpec == CliStart /\ [][CliNext]_vars

PolicyStart == PolicyInit /\ ReaderIdle /\ ParserIdle /\ ToolsIdle

PolicySpec == PolicyStart /\ [][PolicyNext]_vars

ParserStart == ParserInit /\ ReaderIdle /\ PolicyIdle /\ ToolsIdle

ParserSpec == ParserStart /\ [][ParserNext]_vars

ReaderStart == with_cookie /\ ParserIdle /\ PolicyIdle /\ ToolsIdle

ReaderSpec == ReaderStart /\ [][ReaderNext]_vars


(***************************************************************************)
(* Claims about the chunked body reader.                                   *)
(***************************************************************************)
IsPrefix(p, s) == Len(p) <= Len(s) /\ p = Take(s, Len(p))

Reads == {"data", "data_hard", "data_consume", "data_consume_hard"}

\* C1: on a valid chunked body the bytes consumed are, however the reading
\* is split into calls, the chunk bodies in order without the headers; a
\* data_consume(n) consumes n bytes or all that is left.
C1_ChunkBoundaryTransparency ==
    Body.status = "complete" =>
        /\ IsPrefix(hist.consumed, Body.body)
        /\ result.op = "data_consume" =>
             /\ result.ok
             /\ Len(hist.consumed)
                  = Min(hist.before + result.amount, Len(Body.body))
             /\ IsPrefix(Take(Drop(Body.body, hist.before), result.amount),
                         result.bytes)

\* C1 witness: a body in three chunks was consumed by one call that
\* crossed both boundaries.
C1_Witness ==
    /\ Body.status = "complete" /\ Len(Body.body) >= 2
    /\ hist.hdr_count >= 2
    /\ result.op = "data_consume" /\ hist.before = 0
    /\ hist.consumed = Body.body

\* C2 as claimed: whenever fewer than n body bytes are available the hard
\* reads fail with UnexpectedEof and data(n), data_consume(n) succeed with
\* the bytes that are available.
C2_Original ==
    result.op \in Reads /\ result.amount > Len(hist.left) =>
        IF result.op \in {"data_hard", "data_consume_hard"}
        THEN ~result.ok /\ result.kind = "UnexpectedEof"
        ELSE result.ok /\ result.bytes = hist.left

\* C2 amended: whenever fewer than n body bytes are available the hard
\* reads fail with UnexpectedEof and never return a short slice; data(n)
\* and data_consume(n) succeed with the bytes that are available when the
\* body is truncated inside a chunk or ends with its final chunk, and
\* return the header's UnexpectedEof error when the stream ends before the
\* next chunk-length header is complete.
C2_HardReadsFailSoftReadsShort ==
    result.op \in Reads /\ result.amount > Len(hist.left) =>
        IF result.op \in {"data_hard", "data_consume_hard"}
        THEN ~result.ok /\ result.kind = "UnexpectedEof"
        ELSE IF hist.status = "badheader"
        THEN ~result.ok /\ result.kind = "UnexpectedEof"
             /\ result.msg = "EOF"
        ELSE result.ok /\ result.bytes = hist.left

\* C2 witness: a chunk declares more than the stream holds and data_consume
\* returned the short rest after a buffer fill.
C2_Witness ==
    /\ hist.status = "truncated"
    /\ result.op = "data_consume" /\ result.ok
    /\ result.amount > Len(result.bytes) /\ Len(result.bytes) >= 1
    /\ buffer.some /\ hist.hdr_count >= 1

\* A successful data(n) with the remaining body before and after it.
Peeked(before, after, res) ==
    /\ after = before
    /\ IsPrefix(res.bytes, before)
    /\ Len(res.bytes) >= Min(res.amount, Len(before))

C4_HeadersNotHashed ==
    /\ (~hash_headers /\ level # "None") =>
          /\ hashing
          /\ hist.hashed = hist.consumed \o old_data(Reader)
          /\ Body.status = "complete" =>
               /\ IsPrefix(hist.hashed, Body.body)
               /\ (hist.consumed = Body.body => hist.hashed = Body.body)
    /\ hash_headers => ~hist.toggled /\ hashing

\* C4 witness: one header was read with hashing off, a further header
\* failed to parse, and the body bytes were hashed.
C4_Witness ==
    /\ ~hash_headers /\ level # "None"
    /\ hist.hdr_count >= 1 /\ hist.hdr_bytes >= 2 /\ ~hist.fill_err.ok
    /\ Len(hist.hashed) >= 2 /\ hist.toggled

\* C5: the bytes taken from the underlying reader never exceed the headers
\* read plus the chunk lengths declared; last stays true, no header is
\* parsed after the final chunk's header, and once the final chunk is
\* exhausted nothing more is taken from the underlying reader.
C5_Limitor ==
    /\ [](upos <= hist.hdr_bytes + hist.decl_sum)
    /\ [][last => /\ last'
                  /\ hist'.hdr_bytes = hist.hdr_bytes
                  /\ hist'.hdr_count = hist.hdr_count]_vars
    /\ [][last /\ partial_body_length = 0 => upos' = upos]_vars

\* C5 witness: the final chunk is exhausted, the underlying reader holds
\* further octets, and a read for more than was left returned short.
C5_Witness ==
    /\ last /\ partial_body_length = 0
    /\ upos < Len(stream)
    /\ result.op = "data_consume" /\ result.ok
    /\ result.amount > Len(result.bytes)
    /\ hist.hdr_count >= 2

\* C6: when the next chunk-length header fails to parse, the read returns
\* that error, the body bytes read before the failure are in the local
\* buffer, the position has not advanced, and a following request for no
\* more than the buffered amount succeeds and returns those bytes.
C6_HeaderErrorPropagated ==
    /\ [](~hist.fill_err.ok =>
            /\ ~result.ok
            /\ result.kind = hist.fill_err.kind
            /\ result.msg = hist.fill_err.msg
            /\ buffer.some /\ cursor = 0
            /\ buffer.data = hist.left
            /\ Len(hist.consumed) = hist.before)
    /\ [][(~hist.fill_err.ok /\ result'.op \in Reads
                /\ result'.amount <= Len(buffer.data)) =>
            /\ result'.ok
            /\ result'.bytes = buffer.data]_vars

\* C6 witness: a consuming read that crossed a boundary failed on the
\* header, with two body bytes kept in the buffer.
C6_Witness ==
    /\ ~hist.fill_err.ok
    /\ result.op = "data_consume_hard"
    /\ Len(buffer.data) >= 2
    /\ hist.hdr_count >= 1



(***************************************************************************)
(* Claims about the packet parser.                                         *)
(***************************************************************************)
DepthChange == recursion_depth(pp) - recursion_depth(ffi.prev)

\* C7: the recursion depth is never negative; a step made with next never
\* increases it, a step made with recurse increases it by at most 1.
C7_DepthSteps ==
    pp.state = "Some" =>
        /\ sq_packet_parser_recursion_depth(pp) >= 0
        /\ ffi.op = "next" => DepthChange <= 0
        /\ ffi.op = "recurse" => DepthChange <= 1

\* C7 witness: a next that popped out of two exhausted containers.
C7_Witness ==
    /\ pp.state = "Some" /\ ffi.op = "next"
    /\ DepthChange <= 0 - 2

C9_DecryptOnlyUnreadEncrypted ==
    ffi.op = "decrypt" =>
        LET P == ffi.prev IN
        IF pkts[P.idx].tag # "SEIP" \/ P.content_was_read
        THEN ffi.status = "InvalidOperation" /\ pp = P
        ELSE ffi.status = "Success" =>
                /\ pp.decrypted /\ ~P.decrypted
                /\ pp.idx = P.idx
                /\ pp.readers = Append(P.readers,
                                       [name |-> "Decryptor",
                                        depth |-> recursion_depth(P)])

\* C9 witness: decrypt on an encrypted container whose content had been
\* read was refused.
C9_Witness ==
    /\ ffi.op = "decrypt" /\ ffi.status = "InvalidOperation"
    /\ pkts[ffi.prev.idx].tag = "SEIP"
    /\ ffi.prev.content_was_read /\ pp = ffi.prev


(***************************************************************************)
(* Claims about StandardPolicy.                                            *)
(***************************************************************************)
\* The cutoff that applies to a signature under the current policy.
ApplicableCutoff(sig) ==
    IF sig.typ \in RevocationTypes
    THEN policy.hash_algos_revocation[sig.hash_algo]
    ELSE policy.hash_algos_normal[sig.hash_algo]

\* The reference time: the pinned time, or the clock.
ReferenceTime ==
    IF policy.time.some THEN policy.time.t ELSE Clock[now]

\* C10: a signature is accepted if and only if the applicable cutoff is
\* None or the reference time is strictly earlier than the cutoff; at the
\* cutoff it is rejected.
C10_CutoffSemantics ==
    [][verdict' # verdict =>
        LET c == ApplicableCutoff(verdict'.sig) IN
        /\ verdict'.time = ReferenceTime
        /\ verdict'.ok <=> (~c.some \/ TLt(verdict'.time, c.t))
        /\ (c.some /\ verdict'.time = c.t) => ~verdict'.ok]_vars

\* C10 witness: a signature judged at exactly its cutoff was rejected.
C10_Witness ==
    /\ verdict.op = "signature" /\ ~verdict.ok
    /\ ApplicableCutoff(verdict.sig).some
    /\ ApplicableCutoff(verdict.sig).t = verdict.time
    /\ verdict.time = Y2013
    /\ ReferenceTime = verdict.time /\ policy_ops = 0

\* A SystemTime a is earlier than the SystemTime b, fractions included.
SysLt(a, b) ==
    \/ TLt(a, b)
    \/ /\ as_secs(a) = as_secs(b)
       /\ (IF Len(a) = 3 THEN a[3] ELSE 0) < (IF Len(b) = 3 THEN b[3] ELSE 0)

\* What reject_hash_at is claimed to store for the cutoff it is handed.
ClampedAsClaimed(arg, stored) ==
    /\ (arg.some /\ SysLt(arg.t, UNIX_EPOCH)) => stored = SomeTime(UNIX_EPOCH)
    /\ (arg.some /\ SysLt(U32_MAX, arg.t)) => stored = NoTime
    /\ (arg.some /\ ~SysLt(arg.t, UNIX_EPOCH) /\ ~SysLt(U32_MAX, arg.t)) =>
          stored = SomeTime(as_secs(arg.t))

\* The cutoff reject_hash_at was last handed for the track that judges
\* signatures of type typ.
ConfiguredCutoff(typ) ==
    IF typ \in RevocationTypes THEN config.revocation ELSE config.normal

\* C11: reject_hash_at stores a cutoff before the epoch as the epoch, a
\* cutoff later than 2^32 - 1 seconds after the epoch as no cutoff, and a
\* cutoff in between as its whole seconds; with the first every signature
\* using the algorithm is rejected and with the second every one is
\* accepted, at every reference time and whatever its creation time.
C11_Original ==
    config.op = "reject_hash_at" =>
        /\ ClampedAsClaimed(config.normal,
                            policy.hash_algos_normal[config.h])
        /\ ClampedAsClaimed(config.revocation,
                            policy.hash_algos_revocation[config.h])
        /\ (/\ verdict.op = "signature" /\ verdict.ops = policy_ops
            /\ verdict.sig.hash_algo = config.h) =>
              LET arg == ConfiguredCutoff(verdict.sig.typ) IN
              /\ (arg.some /\ SysLt(arg.t, UNIX_EPOCH)) => ~verdict.ok
              /\ (arg.some /\ SysLt(U32_MAX, arg.t)) => verdict.ok

\* The cutoffs a track can hold for an algorithm after reject_hash_at.
StoredCutoffs == {and_then_timestamp(c) : c \in CutoffTimes}

\* The policy P with the cutoff of the track that does NOT judge signatures
\* of type typ replaced by c for algorithm h.
WithOtherTrack(P, typ, h, c) ==
    IF typ \in RevocationTypes
    THEN [P EXCEPT !.hash_algos_normal = CutoffList_set(@, h, c)]
    ELSE [P EXCEPT !.hash_algos_revocation = CutoffList_set(@, h, c)]

SameAlgoAndClass(s1, s2) ==
    /\ s1.hash_algo = s2.hash_algo
    /\ (s1.typ \in RevocationTypes) <=> (s2.typ \in RevocationTypes)

\* The signatures that differ from sig in creation time or in type within
\* its class only.
Alike(sig) == {s \in Signatures : SameAlgoAndClass(s, sig)}

\* C13: the decision of a policy with a pinned reference time depends only
\* on the hash algorithm, the signature class, the pinned time and the
\* cutoff table: evaluating leaves the policy unchanged, evaluating again
\* gives the same decision whatever the clock says, and signatures that
\* differ only in creation time or type within a class are decided alike.
C13_PinnedPolicyIsAFunction ==
    [][(verdict' # verdict /\ policy.time.some) =>
        /\ policy' = policy
        /\ verdict'.time = policy.time.t
        /\ \A sig \in Alike(verdict'.sig), k \in 1..Len(Clock) :
              signature(policy', sig, Clock[k]).ok = verdict'.ok
        /\ (/\ verdict.op = "signature" /\ verdict.ops = policy_ops
            /\ SameAlgoAndClass(verdict.sig, verdict'.sig)) =>
              verdict'.ok = verdict.ok]_vars

\* C13 witness: a policy pinned before the cutoff accepted a signature
\* created in 2020 while the clock has passed the cutoff.
C13_Witness ==
    /\ verdict.op = "signature" /\ verdict.ops = policy_ops
    /\ policy.time = SomeTime(Y2013m1) /\ now = Len(Clock)
    /\ ApplicableCutoff(verdict.sig) = SomeTime(Y2013)
    /\ verdict.sig.creation_time = Y2020
    /\ verdict.ok /\ verdict.time = Y2013m1

\* The algorithms the cutoff tables have an entry for.
Algos == DOMAIN NormalHashCutoffList

ParseErrors == {"MalformedMessage"}

\* A decryption has asked for the session key of an encrypted message.
AskedForSecret ==
    /\ run.pc \in {"reading", "done"}
    /\ run.op = "decrypt" /\ run.msg.encrypted

\* C15: when the session-key callback succeeds without a key the
\* decryption fails with MissingSessionKey, when the callback fails it
\* fails with another error that is not a parse error either, and in both
\* cases the parser's decrypt is not invoked and no plaintext is produced.
C15_NoSessionKey ==
    AskedForSecret =>
        /\ run.calls.get_secret = 1
        /\ run.cb.secret = "null" =>
              /\ run.status = "Failure"
              /\ run.error.kind = "MissingSessionKey"
              /\ run.calls.decrypt = 0 /\ run.out = <<>>
        /\ run.cb.secret = "error" =>
              /\ run.status = "Failure"
              /\ run.error.kind \notin ParseErrors \cup {"MissingSessionKey", ""}
              /\ run.calls.decrypt = 0 /\ run.out = <<>>
        /\ run.cb.secret = "key" => run.calls.decrypt = 1

\* C15 witness: the callback succeeded without a key for an encrypted
\* message with content, and the decryption failed with MissingSessionKey.
C15_Witness ==
    /\ AskedForSecret /\ run.pc = "done"
    /\ run.cb.secret = "null" /\ run.msg.body # <<>> /\ run.msg.intact
    /\ run.error.kind = "MissingSessionKey"

\* C16: check is invoked exactly once in a run that reaches the end of the
\* message, at the end and not before; if it does not report success the
\* operation fails, also when plaintext was delivered already; a run that
\* succeeds has reached the end and had its results approved.
C16_CheckOnceAtEnd ==
    run.pc # "idle" =>
        /\ run.calls.check = IF run.eof THEN 1 ELSE 0
        /\ run.eof =>
              /\ run.msg.intact
              /\ run.check_pos = Len(run.msg.body)
              /\ run.pc = "done"
              /\ run.status = IF run.cb.check = "Success" THEN "Success"
                              ELSE "Failure"
        /\ run.status = "Success" => run.eof

\* C16 witness: the whole plaintext was delivered, then check was called
\* once, did not report success, and the operation failed.
C16_Witness ==
    /\ run.pc = "done" /\ run.eof /\ run.calls.check = 1
    /\ run.cb.check = "Error" /\ run.status = "Failure"
    /\ run.out = run.msg.body /\ Len(run.out) = MaxBody

\* The run r carried on to its end.
RECURSIVE Completed(_)
Completed(r) ==
    IF r.pc = "called" THEN Completed(Verifier_from_reader(r))
    ELSE IF r.pc = "reading" THEN Completed(Verifier_read(r))
         ELSE r

\* The policy P rejects the signature sig or the binding signature of the
\* key that made it.
Rejects(P, sig) == sig.typ \in P \/ "SubkeyBinding" \in P

\* C17: a signature the policy rejects, itself or the binding signature of
\* its key, is never reported as GoodChecksum but as an error, by the
\* Verifier and by the Decryptor; the plaintext delivered is the plaintext
\* delivered under the policy that accepts everything.
C17_PolicyGatesGoodChecksum ==
    run.pc = "done" =>
        /\ run.eof => Len(run.results) = Len(run.msg.sigs)
        /\ \A i \in 1..Len(run.results) :
              Rejects(run.policy, run.msg.sigs[i]) =>
                  /\ run.results[i] # "GoodChecksum"
                  /\ run.certs # <<>> => run.results[i] = "Error"
        /\ run.out = Completed(Call(run.op, run.output, run.msg, run.cb,
                                    {})).out

\* C17 witness: a valid signature by a known key was reported as an error
\* under a policy that rejects it, and the whole plaintext was delivered.
C17_Witness ==
    /\ run.pc = "done" /\ run.eof /\ run.status = "Success"
    /\ run.policy # {} /\ run.certs # <<>>
    /\ Len(run.msg.sigs) = 1 /\ run.msg.sigs[1].valid
    /\ run.results = <<"Error">>
    /\ run.out = run.msg.body /\ Len(run.out) = MaxBody

(***************************************************************************)
(* Claims about certificates under a Policy.                               *)
(***************************************************************************)
\* The certificate c without the self-signatures the policy P rejects: the
\* components whose binding signature is left, with the revocations left.
Without(c, P) ==
    LET bound == {comp \in c.components :
                     /\ Policy_signature(P, "DirectKey")
                     /\ Policy_signature(P, self_signature(comp, FALSE))}
    IN  [c EXCEPT
            !.components = bound,
            !.revocations =
                {comp \in bound \cap c.revocations :
                    Policy_signature(P, self_signature(comp, TRUE))}]

\* C18: a component is valid under a policy only if the policy accepts its
\* binding signature and revoked only if the policy accepts its
\* revocation signature, so that it is not revoked under a policy that
\* rejects the revocation; the rejected self-signatures are ignored, the
\* outcome being that of the certificate without them.
C18_RejectedSelfSignaturesIgnored ==
    (cert.pc = "built" /\ cert.evaluated) =>
        LET P == cert.eval.policy IN
        /\ \A comp \in cert.components :
              /\ comp \in cert.eval.valid =>
                    self_signature(comp, FALSE) \notin P
              /\ comp \in cert.eval.revoked =>
                    /\ comp \in cert.revocations
                    /\ self_signature(comp, TRUE) \notin P
        /\ cert.eval.valid = with_policy(Without(cert, P), {}).valid
        /\ cert.eval.revoked = with_policy(Without(cert, P), {}).revoked

\* C18 witness: a subkey with a revocation signature is valid and not
\* revoked under the policy that rejects subkey revocations, and revoked
\* under the policy that rejects nothing.
C18_Witness ==
    /\ cert.pc = "built" /\ cert.evaluated
    /\ cert.eval.policy = {"SubkeyRevocation"}
    /\ \E comp \in cert.revocations :
          /\ self_signature(comp, TRUE) = "SubkeyRevocation"
          /\ comp \in cert.eval.valid /\ comp \notin cert.eval.revoked
          /\ comp \in with_policy(cert, {}).revoked

(***************************************************************************)
(* Claims about sqv.                                                       *)
(***************************************************************************)
\* C19: sqv exits with 0 if and only if the signatures that verified as
\* good are at least as many as the threshold, with 1 when they are fewer,
\* and with 2 for every other failure, a threshold below 1 or one that is
\* not a number included.
C19_Original ==
    sqv.pc = "exit" =>
        /\ sqv.status = 0 <=>
              (sqv.verified /\ sqv.good >= sqv.good_threshold)
        /\ sqv.status = 1 <=>
              (sqv.verified /\ sqv.good < sqv.good_threshold)
        /\ ~sqv.verified => sqv.status = 2
        /\ (sqv.given /\ (~parse_usize(sqv.arg).ok
                              \/ parse_usize(sqv.arg).n < 1)) =>
              sqv.status = 2

C21_Original ==
    agent.pc \in {"done", "signed"} =>
        /\ ~agent.panicked
        /\ agent.status = "Failure" => agent.error # ""

(***************************************************************************)
(* Further claims about the partial body reader.                           *)
(***************************************************************************)
\* C22: over any sequence of reads, the number of local buffers the reader
\* has allocated (one for each run of do_fill_buffer) is at most the
\* number of chunk boundaries the reads have crossed.
C22_Original == hist.fills <= hist.crossed

\* C24: no sequence of data, data_hard, data_consume, data_consume_hard
\* and consume calls (consume staying within what is buffered) makes the
\* reader panic: no assertion of do_fill_buffer, data_helper or consume
\* fails, partial_body_length never goes below 0, the cursor is 0 while
\* there is no local buffer and never beyond the end of the local buffer.
C24_NoPanic ==
    /\ ~panicked
    /\ partial_body_length >= 0
    /\ ~buffer.some => cursor = 0
    /\ buffer.some => cursor <= Len(buffer.data)

\* C24 witness: after a fill that read the last chunk's header, a consume
\* took the rest of the local buffer.
C24_Witness ==
    /\ buffer.some /\ last /\ hist.hdr_count >= 1
    /\ result.op = "consume" /\ result.amount >= 1
    /\ cursor = Len(buffer.data)

\* C25: a data_consume or data_consume_hard that returns an error leaves
\* the logical position where it was and every byte that was ahead still
\* ahead; without a local buffer it has taken nothing from the underlying
\* reader either, and the check after the underlying reader's consume
\* never fails, because last holds only with a local buffer and a local
\* buffer is never dropped.
C25_FailedReadConsumesNothing ==
    /\ []((result.op \in {"data_consume", "data_consume_hard"}
              /\ ~result.ok /\ ~panicked)
           => /\ Len(hist.consumed) = hist.before
              /\ IsPrefix(hist.left, Remaining)
              /\ ~buffer.some => upos = hist.ubefore
              /\ result.msg # "unexpected EOF")
    /\ [](last => buffer.some)
    /\ [][buffer.some => buffer'.some]_vars

\* C25 witness: a data_consume_hard failed although bytes were ahead, in
\* a reader that has a local buffer.
C25_Witness ==
    /\ result.op = "data_consume_hard" /\ ~result.ok
    /\ buffer.some /\ Len(hist.left) >= 1
    /\ hist.left = Remaining

\* C26: the fill loop of do_fill_buffer terminates: every iteration but
\* the one that leaves the loop has taken at least one octet from the
\* underlying stream, so the iterations of one fill are at most the octets
\* it took plus one; and the loop was left on a satisfied request, on the
\* exhausted last chunk, on a short read or on an error.
C26_FillLoopTerminates ==
    hist.loops >= 1 =>
        /\ ~panicked
        /\ hist.loops - 1 <= upos - hist.ubefore
        /\ hist.loops <= Len(stream) + 1
        /\ \/ Len(buffer.data) = result.amount
           \/ last /\ partial_body_length = 0
           \/ upos = Len(stream)
           \/ ~hist.fill_err.ok

\* C26 witness: a fill of three iterations that ended on a final chunk of
\* length zero with the request not satisfied.
C26_Witness ==
    /\ hist.loops >= 3 /\ hist.fill_err.ok /\ result.ok
    /\ last /\ partial_body_length = 0
    /\ Len(buffer.data) < result.amount
    /\ upos < Len(stream) + 1
    /\ stream[upos] = 0

(***************************************************************************)
(* Further claims about StandardPolicy.                                    *)
(***************************************************************************)
\* The reference times at which the tracks are compared: the default
\* cutoffs, the second before one of them, and both ends of the range.
ReferenceTimes == {UNIX_EPOCH, Y1997, Y2004, Y2013m1, Y2013, Y2020, U32_MAX}

\* In P, at every reference time and for every hash algorithm, a revocation
\* signature is accepted wherever a non-revocation signature is.
RevocationNotEarlier(P) ==
    \A a \in 0..11, t \in ReferenceTimes :
        LET At == [P EXCEPT !.time = SomeTime(t)] IN
        signature(At, [typ |-> "SubkeyBinding", hash_algo |-> a,
                       creation_time |-> UNIX_EPOCH], Clock[1]).ok
            => signature(At, [typ |-> "SubkeyRevocation", hash_algo |-> a,
                              creation_time |-> UNIX_EPOCH], Clock[1]).ok

C27_Original ==
    (sqv.pc = "exit" /\ sqv.verified) =>
        \A i \in 1..Len(sqv.sigs) :
            ~sqv.sigs[i].tpko.some =>
                \A tpk \in sqv.seen : ~tpk_has_key(tpk, sqv.sigs[i].issuer)

\* The issuer keys of the signatures that verified.
GoodIssuers ==
    {sqv.sigs[i].issuer :
        i \in {j \in 1..Len(sqv.sigs) :
                 /\ sqv.sigs[j].tpko.some
                 /\ tpk_has_key(sqv.sigs[j].tpko.tpk, sqv.sigs[j].issuer)
                 /\ sqv.sigs[j].valid}}

\* C28: sqv exits with 0 only if signatures of at least good_threshold
\* pairwise distinct issuer keys verified.
C28_Original ==
    (sqv.pc = "exit" /\ sqv.verified /\ sqv.status = 0) =>
        Cardinality(GoodIssuers) >= sqv.good_threshold

(***************************************************************************)
(* Claims about the sq-sdkms command line.                                 *)
(***************************************************************************)
\* C29: the command never modifies an existing output file.  A path that
\* exists when the command starts makes it fail with "Output file exists"
\* before any request is sent; a file another process creates before the
\* command opens the path makes the exclusive open fail; and in every
\* step a file that another process made keeps its content.
C29_ExistingFileUntouched ==
    /\ []((cli.pc # "idle" /\ cli.output_file /\ cli.existed)
            => /\ cli.requests = 0
               /\ cli.pc = "exit" =>
                    cli.status # 0 /\ cli.error = "Output file exists")
    /\ []((cli.pc = "exit" /\ cli.output_file /\ cli.file.by = "other")
            => cli.status # 0)
    /\ [][(cli.pc # "idle" /\ cli.file.by = "other")
            => cli'.file = cli.file]_vars

\* C29 witness: the path was free when it was checked, another process
\* created it after the request, and the open failed.
C29_Witness ==
    /\ cli.pc = "exit" /\ cli.output_file /\ ~cli.existed
    /\ cli.requests = 1 /\ cli.error = "open"
    /\ cli.file = FileOf("other", <<9>>)

\* C30: when the command ends with status 0 the complete material is at
\* the chosen destination, the output file or standard output.
C30_Original ==
    (cli.pc = "exit" /\ cli.status = 0) =>
        IF cli.output_file
        THEN cli.file = FileOf("cli", cli.pgp_material)
        ELSE cli.stdout = cli.pgp_material

====
